---- MODULE Spec2Model ----
(***************************************************************************)
(* npm-check-engines: the most-restrictive-range reducer (restrictiveRange) *)
(* and the constraint aggregator (computeEnginesConstraint) of lib/tasks,   *)
(* over the semver primitives they call.                                    *)
(*                                                                          *)
(* A version is a record (major, minor, patch, prerelease); a comparator is *)
(* (operator, semver); a range text is a sequence of tokens: one token per  *)
(* comparator value, the token "||" between groups; comparators of a group  *)
(* are separated by one blank, which the token sequence leaves implicit.    *)
(***************************************************************************)
EXTENDS Integers, Sequences, FiniteSets, TLC

(***************************************************************************)
(* Bounds of the model.                                                     *)
(***************************************************************************)
MaxMajor == 3
MaxMinor == 1
MaxDeps == 3
MaxDupDeps == 5
MaxFuel == 12
MaxLockDeps == 2
MaxSkipDeps == 4

(***************************************************************************)
(* semver.SemVer                                                            *)
(***************************************************************************)
SemVer(ma, mi, pa) == [major |-> ma, minor |-> mi, patch |-> pa, prerelease |-> <<>>]

\* x.y.z-0, the exclusive upper bound semver writes for caret and tilde ranges
SemVerPre0(ma, mi, pa) == [major |-> ma, minor |-> mi, patch |-> pa, prerelease |-> <<0>>]

\* Comparator.ANY: the semver of the comparator '' (its major is undefined in
\* the code, so every `major >= n` test on it is false)
ANY == [major |-> -1, minor |-> -1, patch |-> -1, prerelease |-> <<>>]

compareIdentifiers(a, b) == IF a < b THEN -1 ELSE IF a > b THEN 1 ELSE 0

compareMain(a, b) ==
    IF a.major # b.major THEN compareIdentifiers(a.major, b.major)
    ELSE IF a.minor # b.minor THEN compareIdentifiers(a.minor, b.minor)
    ELSE compareIdentifiers(a.patch, b.patch)

RECURSIVE comparePreFrom(_, _, _)
comparePreFrom(p, q, i) ==
    IF i > Len(p) /\ i > Len(q) THEN 0
    ELSE IF i > Len(q) THEN 1
    ELSE IF i > Len(p) THEN -1
    ELSE IF p[i] = q[i] THEN comparePreFrom(p, q, i + 1)
    ELSE compareIdentifiers(p[i], q[i])

comparePre(a, b) ==
    IF Len(a.prerelease) > 0 /\ Len(b.prerelease) = 0 THEN -1
    ELSE IF Len(a.prerelease) = 0 /\ Len(b.prerelease) > 0 THEN 1
    ELSE IF Len(a.prerelease) = 0 /\ Len(b.prerelease) = 0 THEN 0
    ELSE comparePreFrom(a.prerelease, b.prerelease, 1)

compareOr(main, a, b) == IF main # 0 THEN main ELSE comparePre(a, b)

\* semver.compare
compare(a, b) == compareOr(compareMain(a, b), a, b)

gt(a, b) == compare(a, b) > 0
gte(a, b) == compare(a, b) >= 0
lt(a, b) == compare(a, b) < 0
eq(a, b) == compare(a, b) = 0

cmpSign(op, c) ==
    CASE op = ">=" -> c >= 0
      [] op = ">" -> c > 0
      [] op = "<" -> c < 0
      [] op = "<=" -> c <= 0
      [] OTHER -> c = 0

\* semver.cmp
cmp(a, op, b) == cmpSign(op, compare(a, b))

(***************************************************************************)
(* semver.Comparator                                                        *)
(***************************************************************************)
Comparator(op, v) == [operator |-> op, semver |-> v]

AnyComparator == Comparator("", ANY)

isAny(c) == c.semver = ANY

\* the null set is the comparator '<0.0.0-0'
isNullSet(c) == c = Comparator("<", SemVerPre0(0, 0, 0))

\* Comparator.test
ComparatorTest(c, version) == isAny(c) \/ cmp(version, c.operator, c.semver)

IsGT(c) == c.operator \in {">", ">="}
IsLT(c) == c.operator \in {"<", "<="}

(***************************************************************************)
(* Range texts: token sequences.                                            *)
(***************************************************************************)
Tok(op, v) == [op |-> op, v |-> v]
OrTok == Tok("||", ANY)
StarTok == Tok("*", ANY)

\* Comparator.value: operator + version; '' for the ANY comparator
ComparatorValue(c) == IF isAny(c) THEN <<>> ELSE <<Tok(c.operator, c.semver)>>

RECURSIVE Flatten(_)
Flatten(ss) == IF ss = <<>> THEN <<>> ELSE Head(ss) \o Flatten(Tail(ss))

RECURSIVE JoinOr(_)
JoinOr(ss) ==
    IF ss = <<>> THEN <<>>
    ELSE IF Len(ss) = 1 THEN Head(ss)
    ELSE Head(ss) \o <<OrTok>> \o JoinOr(Tail(ss))

\* set.map(tuple => tuple.map(comp => comp.value).join(' ')).join('||')
FormatSet(set) ==
    JoinOr([i \in 1..Len(set) |->
              Flatten([j \in 1..Len(set[i]) |-> ComparatorValue(set[i][j])])])

\* text.split('||'): the token runs between the "||" tokens (one run, the
\* empty one, for the empty text)
RECURSIVE SplitOrFrom(_, _)
SplitOrFrom(text, cur) ==
    IF text = <<>> THEN <<cur>>
    ELSE IF Head(text) = OrTok THEN <<cur>> \o SplitOrFrom(Tail(text), <<>>)
    ELSE SplitOrFrom(Tail(text), Append(cur, Head(text)))

SplitOr(text) == SplitOrFrom(text, <<>>)

\* replaceCaret: ^M.m.p desugared to its two comparators
replaceCaret(v) ==
    IF v.major = 0
    THEN IF v.minor = 0
         THEN <<Comparator(">=", v), Comparator("<", SemVerPre0(0, 0, v.patch + 1))>>
         ELSE <<Comparator(">=", v), Comparator("<", SemVerPre0(0, v.minor + 1, 0))>>
    ELSE <<Comparator(">=", v), Comparator("<", SemVerPre0(v.major + 1, 0, 0))>>

\* replaceGTE0: the comparator '>=0.0.0' is rewritten to '' (ANY)
replaceGTE0(c) == IF c = Comparator(">=", SemVer(0, 0, 0)) THEN AnyComparator ELSE c

\* parseComparator on one token
parseComparator(tok) ==
    CASE tok.op = "^" -> replaceCaret(tok.v)
      [] tok.op = "*" -> <<AnyComparator>>
      [] OTHER -> <<Comparator(tok.op, tok.v)>>

\* the Map keyed by comparator value: first occurrence of each value kept
RECURSIVE Dedupe(_, _)
Dedupe(cs, seen) ==
    IF cs = <<>> THEN <<>>
    ELSE IF Head(cs) \in seen THEN Dedupe(Tail(cs), seen)
    ELSE <<Head(cs)>> \o Dedupe(Tail(cs), seen \cup {Head(cs)})

\* one run of tokens to its comparators ('' is the comparator ANY)
rawComparators(run) ==
    IF run = <<>> THEN <<AnyComparator>>
    ELSE Flatten([i \in 1..Len(run) |-> parseComparator(run[i])])

mapGTE0(comps) == [i \in 1..Len(comps) |-> replaceGTE0(comps[i])]

\* a group of more than one comparator loses its '' comparators
dropAny(uniq) ==
    IF Len(uniq) > 1 /\ \E i \in 1..Len(uniq) : isAny(uniq[i])
    THEN SelectSeq(uniq, LAMBDA c : ~isAny(c))
    ELSE uniq

normalizeGroup(comps) ==
    IF \E i \in 1..Len(comps) : isNullSet(comps[i])
    THEN <<Comparator("<", SemVerPre0(0, 0, 0))>>
    ELSE dropAny(Dedupe(comps, {}))

\* Range.parseRange: the comparators of one group
parseRange(run) == normalizeGroup(mapGTE0(rawComparators(run)))

IsStarGroup(g) == Len(g) = 1 /\ isAny(g[1])

parseRuns(runs) == [i \in 1..Len(runs) |-> parseRange(runs[i])]

keepFirstIfEmpty(nonNull, set0) == IF nonNull = <<>> THEN <<set0[1]>> ELSE nonNull

\* null sets are thrown out when the range has another group
dropNullSets(set0) ==
    IF Len(set0) > 1
    THEN keepFirstIfEmpty(SelectSeq(set0, LAMBDA g : ~isNullSet(g[1])), set0)
    ELSE set0

\* any '*' group makes the whole range '*'
collapseStar(set1) ==
    IF Len(set1) > 1 /\ \E i \in 1..Len(set1) : IsStarGroup(set1[i])
    THEN <<<<AnyComparator>>>>
    ELSE set1

\* the Range constructor's set
ParseSet(text) == collapseStar(dropNullSets(parseRuns(SplitOr(text))))

\* new semver.Range(text): raw is the text given, set its parse
Range(text) == [raw |-> text, set |-> ParseSet(text)]

\* Range.range (format()): the normalized text of the parsed set
RangeFormat(r) == FormatSet(r.set)

\* semver.validRange of a well-formed text: the normalized text, or '*'
orStar(f) == IF f = <<>> THEN <<StarTok>> ELSE f

validRange(text) == orStar(FormatSet(ParseSet(text)))

(***************************************************************************)
(* Range.test, semver.satisfies                                             *)
(***************************************************************************)
\* testSet: every comparator accepts the version; a prerelease version also
\* needs a comparator with a prerelease on the same major.minor.patch
testSet(g, version) ==
    /\ \A i \in 1..Len(g) : ComparatorTest(g[i], version)
    /\ Len(version.prerelease) > 0 =>
          \E i \in 1..Len(g) :
              /\ ~isAny(g[i])
              /\ Len(g[i].semver.prerelease) > 0
              /\ g[i].semver.major = version.major
              /\ g[i].semver.minor = version.minor
              /\ g[i].semver.patch = version.patch

RangeTest(r, version) == \E i \in 1..Len(r.set) : testSet(r.set[i], version)

\* semver.satisfies(version, String(comparator))
satisfies(version, c) == RangeTest(Range(ComparatorValue(c)), version)

(***************************************************************************)
(* semver.subset                                                            *)
(***************************************************************************)
NoComp == Comparator("none", ANY)

\* higherGT(a, b): TRUE when it returns b (>=1.2.3 is lower than >1.2.3)
higherGTisB(a, b) ==
    IF a = NoComp THEN TRUE
    ELSE LET comp == compare(a.semver, b.semver)
         IN  IF comp > 0 THEN FALSE
             ELSE IF comp < 0 THEN TRUE
             ELSE b.operator = ">" /\ a.operator = ">="

higherGT(a, b) == IF higherGTisB(a, b) THEN b ELSE a

\* lowerLT(a, b): TRUE when it returns b (<=1.2.3 is higher than <1.2.3)
lowerLTisB(a, b) ==
    IF a = NoComp THEN TRUE
    ELSE LET comp == compare(a.semver, b.semver)
         IN  IF comp < 0 THEN FALSE
             ELSE IF comp > 0 THEN TRUE
             ELSE b.operator = "<" /\ a.operator = "<="

lowerLT(a, b) == IF lowerLTisB(a, b) THEN b ELSE a

RECURSIVE FoldGT(_, _)
FoldGT(cs, acc) ==
    IF cs = <<>> THEN acc
    ELSE FoldGT(Tail(cs), IF IsGT(Head(cs)) THEN higherGT(acc, Head(cs)) ELSE acc)

RECURSIVE FoldLT(_, _)
FoldLT(cs, acc) ==
    IF cs = <<>> THEN acc
    ELSE FoldLT(Tail(cs), IF IsLT(Head(cs)) THEN lowerLT(acc, Head(cs)) ELSE acc)

minimumVersion == <<Comparator(">=", SemVer(0, 0, 0))>>

SameTuplePre(c, v) ==
    /\ Len(c.semver.prerelease) > 0
    /\ c.semver.major = v.major
    /\ c.semver.minor = v.minor
    /\ c.semver.patch = v.patch

starToMinimum(g) == IF IsStarGroup(g) THEN minimumVersion ELSE g

eqSetOf(sub) == {sub[i].semver : i \in {j \in 1..Len(sub) : ~IsGT(sub[j]) /\ ~IsLT(sub[j])}}

\* compare(gt.semver, lt.semver), or -2 (undefined) without both bounds
gtltCompOf(gtc, ltc) ==
    IF gtc # NoComp /\ ltc # NoComp THEN compare(gtc.semver, ltc.semver) ELSE -2

\* one comparator of dom makes the loop return false
domRejects(c, gtc, ltc, gtltComp) ==
    \/ /\ gtc # NoComp
       /\ IF IsGT(c) THEN higherGTisB(gtc, c) /\ c # gtc
          ELSE gtc.operator = ">=" /\ ~satisfies(gtc.semver, c)
    \/ /\ ltc # NoComp
       /\ IF IsLT(c) THEN lowerLTisB(ltc, c) /\ c # ltc
          ELSE ltc.operator = "<=" /\ ~satisfies(ltc.semver, c)
    \/ c.operator = "" /\ (ltc # NoComp \/ gtc # NoComp) /\ gtltComp # 0

\* sub has one '=' version: it decides
eqDecides(e, dom, gtc, ltc) ==
    IF gtc # NoComp /\ ~satisfies(e, gtc) THEN "null"
    ELSE IF ltc # NoComp /\ ~satisfies(e, ltc) THEN "null"
    ELSE IF \E i \in 1..Len(dom) : ~satisfies(e, dom[i]) THEN "false"
    ELSE "true"

\* the subset's bound has a prerelease that no comparator of dom has on the
\* same tuple; '<x.y.z-0' is exempt (it is the same as '<x.y.z')
needDomGTPre(dom, gtc) ==
    /\ gtc # NoComp
    /\ Len(gtc.semver.prerelease) > 0
    /\ ~\E i \in 1..Len(dom) : SameTuplePre(dom[i], gtc.semver)

needDomLTPre(dom, ltc) ==
    /\ ltc # NoComp
    /\ Len(ltc.semver.prerelease) > 0
    /\ ~(Len(ltc.semver.prerelease) = 1 /\ ltc.operator = "<" /\ ltc.semver.prerelease[1] = 0)
    /\ ~\E i \in 1..Len(dom) : SameTuplePre(dom[i], ltc.semver)

simpleSubsetDecide(dom, gtc, ltc, eqSet, gtltComp) ==
    IF Cardinality(eqSet) > 1 THEN "null"
    ELSE IF gtltComp > 0 THEN "null"
    ELSE IF gtltComp = 0 /\ (gtc.operator # ">=" \/ ltc.operator # "<=") THEN "null"
    ELSE IF eqSet # {} THEN eqDecides(CHOOSE v \in eqSet : TRUE, dom, gtc, ltc)
    ELSE IF \E i \in 1..Len(dom) : domRejects(dom[i], gtc, ltc, gtltComp) THEN "false"
    ELSE IF /\ gtc # NoComp /\ ltc = NoComp /\ gtltComp # 0
            /\ \E i \in 1..Len(dom) : IsLT(dom[i]) THEN "false"
    ELSE IF /\ ltc # NoComp /\ gtc = NoComp /\ gtltComp # 0
            /\ \E i \in 1..Len(dom) : IsGT(dom[i]) THEN "false"
    ELSE IF needDomGTPre(dom, gtc) \/ needDomLTPre(dom, ltc) THEN "false"
    ELSE "true"

simpleSubsetBounds(sub, dom, gtc, ltc) ==
    simpleSubsetDecide(dom, gtc, ltc, eqSetOf(sub), gtltCompOf(gtc, ltc))

\* simpleSubset(sub, dom): "true", "false", or "null" when sub is the null set
simpleSubset(sub, dom) ==
    IF IsStarGroup(sub) /\ IsStarGroup(dom) THEN "true"
    ELSE simpleSubsetBounds(starToMinimum(sub), starToMinimum(dom),
                            FoldGT(starToMinimum(sub), NoComp), FoldLT(starToMinimum(sub), NoComp))

\* the OUTER loop of subset over sub.set[i..]: a group that is a subset of some
\* group of dom goes on (sawNonNull is then true); a group that is not stops
\* with false once any comparison, of this group or an earlier one, was not null
RECURSIVE subsetFrom(_, _, _, _)
subsetFrom(subSet, domSet, i, sawNonNull) ==
    IF i > Len(subSet) THEN TRUE
    ELSE IF \E j \in 1..Len(domSet) : simpleSubset(subSet[i], domSet[j]) = "true"
         THEN subsetFrom(subSet, domSet, i + 1, TRUE)
    ELSE IF sawNonNull \/ \E j \in 1..Len(domSet) : simpleSubset(subSet[i], domSet[j]) = "false"
         THEN FALSE
    ELSE subsetFrom(subSet, domSet, i + 1, FALSE)

\* semver.subset(sub, dom). Its shortcut `sub === dom` is object identity: the
\* aggregator and the recursive calls always pass two distinct Range objects,
\* so the loop decides.
subset(sub, dom) == subsetFrom(sub.set, dom.set, 1, FALSE)

(***************************************************************************)
(* Range.intersects                                                         *)
(***************************************************************************)
\* Comparator.intersects
ComparatorIntersects(a, b) ==
    IF a.operator = "" THEN (isAny(a) \/ satisfies(a.semver, b))
    ELSE IF b.operator = "" THEN (isAny(b) \/ satisfies(b.semver, a))
    ELSE \/ IsGT(a) /\ IsGT(b)
         \/ IsLT(a) /\ IsLT(b)
         \/ a.semver = b.semver /\ a.operator \in {">=", "<="} /\ b.operator \in {">=", "<="}
         \/ lt(a.semver, b.semver) /\ IsGT(a) /\ IsLT(b)
         \/ gt(a.semver, b.semver) /\ IsLT(a) /\ IsGT(b)

\* isSatisfiable: the comparators of one group intersect pairwise
isSatisfiable(g) ==
    \A i \in 1..Len(g) : \A j \in 1..(i - 1) : ComparatorIntersects(g[i], g[j])

RangeIntersects(a, b) ==
    \E i \in 1..Len(a.set) :
        /\ isSatisfiable(a.set[i])
        /\ \E j \in 1..Len(b.set) :
              /\ isSatisfiable(b.set[j])
              /\ \A x \in 1..Len(a.set[i]) : \A y \in 1..Len(b.set[j]) :
                    ComparatorIntersects(a.set[i][x], b.set[j][y])

(***************************************************************************)
(* semver.minVersion                                                        *)
(***************************************************************************)
NoVersion == [major |-> -2, minor |-> -2, patch |-> -2, prerelease |-> <<>>]

\* the version a comparator contributes to its group's minimum
compver(c) ==
    IF c.operator = ">"
    THEN IF Len(c.semver.prerelease) = 0
         THEN [c.semver EXCEPT !.patch = @ + 1]
         ELSE [c.semver EXCEPT !.prerelease = Append(@, 0)]
    ELSE c.semver

higherOf(acc, v) == IF acc = NoVersion \/ gt(v, acc) THEN v ELSE acc

RECURSIVE setMinFrom(_, _)
setMinFrom(cs, acc) ==
    IF cs = <<>> THEN acc
    ELSE setMinFrom(Tail(cs),
             IF IsLT(Head(cs)) \/ isAny(Head(cs)) THEN acc ELSE higherOf(acc, compver(Head(cs))))

lowerOf(acc, setMin) ==
    IF setMin # NoVersion /\ (acc = NoVersion \/ gt(acc, setMin)) THEN setMin ELSE acc

RECURSIVE minverFrom(_, _)
minverFrom(set, acc) ==
    IF set = <<>> THEN acc
    ELSE minverFrom(Tail(set), lowerOf(acc, setMinFrom(Head(set), NoVersion)))

testedOrNull(r, minver) ==
    IF minver # NoVersion /\ RangeTest(r, minver) THEN minver ELSE NoVersion

\* semver.minVersion(range): NoVersion stands for null
minVersion(r) ==
    IF RangeTest(r, SemVer(0, 0, 0)) THEN SemVer(0, 0, 0)
    ELSE IF RangeTest(r, SemVerPre0(0, 0, 0)) THEN SemVerPre0(0, 0, 0)
    ELSE testedOrNull(r, minverFrom(r.set, NoVersion))

(***************************************************************************)
(* lib/tasks: sortRangeSet, setToRange, applyMinVersionToRangeSet           *)
(***************************************************************************)
RECURSIVE InsertSorted(_, _)

\* insertion of group g before the groups whose first version equals its own
InsertSortedFirst(sorted, g) ==
    IF sorted = <<>> THEN <<g>>
    ELSE IF compare(Head(sorted)[1].semver, g[1].semver) < 0
         THEN <<Head(sorted)>> \o InsertSorted(Tail(sorted), g)
         ELSE <<g>> \o sorted

\* insertion of group g after every group whose first version is <= its own
InsertSorted(sorted, g) ==
    IF sorted = <<>> THEN <<g>>
    ELSE IF compare(Head(sorted)[1].semver, g[1].semver) <= 0
         THEN <<Head(sorted)>> \o InsertSorted(Tail(sorted), g)
         ELSE <<g>> \o sorted

RECURSIVE SortFrom(_, _)
SortFrom(set, acc) ==
    IF set = <<>> THEN acc ELSE SortFrom(Tail(set), InsertSorted(acc, Head(set)))

\* a stable sort, ascending by the version of each group's first comparator
sortRangeSet(set) == SortFrom(set, <<>>)

setToRange(set) == Range(FormatSet(set))

applyMinVersionToGroup(c, minV) ==
    IF c[1].semver.major = minV.major /\ gte(minV, c[1].semver)
    THEN [c EXCEPT ![1] = Comparator(c[1].operator, minV)]
    ELSE c

mapMinVersion(kept, minV) == [i \in 1..Len(kept) |-> applyMinVersionToGroup(kept[i], minV)]

applyMinVersionToRangeSet(set, minV) ==
    mapMinVersion(SelectSeq(set, LAMBDA c : c[1].semver.major >= minV.major), minV)

(***************************************************************************)
(* lib/tasks: restrictiveRange                                              *)
(*                                                                          *)
(* The result is a record: status "ok" with the range returned, or the      *)
(* error thrown ("nyi": 'Not yet implemented :/'; "invalid": the TypeError  *)
(* of new SemVer('*') when a range has no minimum version); pushed: the     *)
(* texts appended to ignoredRanges, in order; steps: the branch taken at    *)
(* each recursion level; same: some level recursed on its own arguments.    *)
(***************************************************************************)
Thrown(kind, steps) ==
    [status |-> kind, range |-> Range(<<>>), pushed |-> <<>>, steps |-> steps, same |-> FALSE]

RECURSIVE restrictiveRangeRec(_, _, _)

\* lines 135-139: recurse on the floor-aligned ranges when they intersect
alignResult(sub, sameArgs) ==
    [sub EXCEPT !.steps = <<"align">> \o @, !.same = @ \/ sameArgs]

alignRanges(r1, r2, newR1, newR2, fuel) ==
    IF RangeIntersects(newR1, newR2)
    THEN alignResult(restrictiveRangeRec(newR1, newR2, fuel - 1), newR1 = r1 /\ newR2 = r2)
    ELSE Thrown("nyi", <<"align">>)

\* line 127: the larger of the two minimum versions
minSemver(minVersion1, minVersion2) ==
    IF compare(minVersion1, minVersion2) = -1 THEN minVersion2 ELSE minVersion1

\* lines 150-155: the head group, then the groups of the recursive result
mergeResult(minComp, sub) ==
    IF sub.status # "ok" THEN [sub EXCEPT !.steps = <<"merge">> \o @]
    ELSE [sub EXCEPT !.range = setToRange(<<minComp>> \o sortRangeSet(sub.range.set)),
                     !.steps = <<"merge">> \o @]

\* lines 142-153: both sorted lists lose their head (a parsed range has at
\* least one group, so r1's head always exists and is the one taken)
mergeRanges(sortedR1, sortedR2, fuel) ==
    mergeResult(Head(sortedR1),
                restrictiveRangeRec(setToRange(Tail(sortedR1)), setToRange(Tail(sortedR2)), fuel - 1))

\* lines 121-155: neither range is a subset of the other
alignOrMerge(r1, r2, minVersion1, minVersion2, sortedR1, sortedR2, fuel) ==
    IF minVersion1 = NoVersion \/ minVersion2 = NoVersion
    THEN Thrown("invalid", <<"minVersion">>)
    ELSE IF ~eq(minVersion1, minVersion2)
    THEN alignRanges(r1, r2,
             setToRange(applyMinVersionToRangeSet(sortedR1, minSemver(minVersion1, minVersion2))),
             setToRange(applyMinVersionToRangeSet(sortedR2, minSemver(minVersion1, minVersion2))),
             fuel)
    ELSE mergeRanges(sortedR1, sortedR2, fuel)

\* restrictiveRange recording the text of the range it returns instead of the
\* text of the range it drops
restrictiveRangeRecordsKept(r1, r2, fuel) ==
    IF fuel = 0 THEN Thrown("fuel", <<>>)
    ELSE IF subset(r1, r2)
    THEN [status |-> "ok", range |-> r1, pushed |-> <<r1.raw>>,
          steps |-> <<"subset1">>, same |-> FALSE]
    ELSE IF subset(r2, r1)
    THEN [status |-> "ok", range |-> r2, pushed |-> <<r2.raw>>,
          steps |-> <<"subset2">>, same |-> FALSE]
    ELSE alignOrMerge(r1, r2, minVersion(r1), minVersion(r2),
                      sortRangeSet(r1.set), sortRangeSet(r2.set), fuel)

\* restrictiveRange returning a range rebuilt from the groups of the subset
\* instead of the subset itself
restrictiveRangeRebuilds(r1, r2, fuel) ==
    IF fuel = 0 THEN Thrown("fuel", <<>>)
    ELSE IF subset(r1, r2)
    THEN [status |-> "ok", range |-> setToRange(r1.set), pushed |-> <<r2.raw>>,
          steps |-> <<"subset1">>, same |-> FALSE]
    ELSE IF subset(r2, r1)
    THEN [status |-> "ok", range |-> setToRange(r2.set), pushed |-> <<r1.raw>>,
          steps |-> <<"subset2">>, same |-> FALSE]
    ELSE alignOrMerge(r1, r2, minVersion(r1), minVersion(r2),
                      sortRangeSet(r1.set), sortRangeSet(r2.set), fuel)

\* lines 103-156
restrictiveRangeRec(r1, r2, fuel) ==
    IF fuel = 0 THEN Thrown("fuel", <<>>)
    ELSE IF subset(r1, r2)
    THEN [status |-> "ok", range |-> r1, pushed |-> <<r2.raw>>,
          steps |-> <<"subset1">>, same |-> FALSE]
    ELSE IF subset(r2, r1)
    THEN [status |-> "ok", range |-> r2, pushed |-> <<r1.raw>>,
          steps |-> <<"subset2">>, same |-> FALSE]
    ELSE alignOrMerge(r1, r2, minVersion(r1), minVersion(r2),
                      sortRangeSet(r1.set), sortRangeSet(r2.set), fuel)

restrictiveRange(r1, r2) == restrictiveRangeRec(r1, r2, MaxFuel)

(***************************************************************************)
(* Inputs: the constraint texts a package-lock.json declares.               *)
(***************************************************************************)
Majors == 1..MaxMajor
Minors == 0..MaxMinor

LoVersions == {SemVer(ma, mi, 0) : ma \in Majors, mi \in Minors}

\* one group of a text: '^x.y.0', '>=x.y.0', '>=x.0.0 <x.1.0' (inside one
\* major) and '>=x.y.0 <(x+2).0.0' (across two majors)
CaretRuns == {<<Tok("^", v)>> : v \in LoVersions}
OpenRuns == {<<Tok(">=", v)>> : v \in LoVersions}
NarrowRuns == {<<Tok(">=", SemVer(ma, 0, 0)), Tok("<", SemVer(ma, 1, 0))>> : ma \in Majors}
WideRuns == {<<Tok(">=", v), Tok("<", SemVer(v.major + 2, 0, 0))>> : v \in LoVersions}

RunMajor(run) == run[1].v.major

\* '^x.0.0 || ^y.y.0' and '^x.0.0 || >=y.y.0', x < y
CaretThenTexts ==
    {<<Tok("^", SemVer(ma, 0, 0)), OrTok>> \o b :
        <<ma, b>> \in {p \in Majors \X (CaretRuns \cup OpenRuns) : p[1] < RunMajor(p[2])}}

\* caret groups with the higher major first, as in the 'should sort range' test
UnsortedTexts ==
    {a \o <<OrTok>> \o b : <<a, b>> \in {p \in CaretRuns \X CaretRuns : RunMajor(p[1]) > RunMajor(p[2])}}

MixedTexts ==
    {a \o <<OrTok>> \o b :
        <<a, b>> \in {p \in (CaretRuns \cup NarrowRuns) \X (CaretRuns \cup OpenRuns) :
                        RunMajor(p[1]) < RunMajor(p[2])}}

\* the texts the reducer is applied to
RangeTexts ==
    CaretRuns \cup OpenRuns \cup NarrowRuns \cup WideRuns \cup MixedTexts \cup UnsortedTexts

\* the texts the aggregator is fed: caret and open-ended shapes, and '*'
Constraints == CaretRuns \cup OpenRuns \cup CaretThenTexts \cup {<<StarTok>>}

\* a lock-file package: the constraint getConstraintFromEngines finds for the
\* engine (a text), none at all, or a string that is no semver range
Declared(text) == [kind |-> "text", text |-> text]
NoConstraint == [kind |-> "absent", text |-> <<>>]
InvalidConstraint == [kind |-> "invalid", text |-> <<>>]

Packages == {Declared(t) : t \in Constraints} \cup {NoConstraint, InvalidConstraint}

\* the packages of the 'should compute mrr & using ignored range' test
GTE12220 == <<Tok(">=", SemVer(12, 22, 0))>>
GTE14170 == <<Tok(">=", SemVer(14, 17, 0))>>
DuplicatePackages == {Declared(GTE12220), Declared(GTE14170)}

\* the versions ranges are compared on: what a range denotes is the set of
\* these it accepts
TestVersions == {SemVer(ma, mi, 0) : ma \in 0..(MaxMajor + 2), mi \in 0..(MaxMinor + 1)}

Denotes(r) == {v \in TestVersions : RangeTest(r, v)}

(***************************************************************************)
(* State.                                                                   *)
(*   packages       the lock-file packages iterated so far, in order        *)
(*   mrr            computeEnginesConstraint's accumulator                   *)
(*   ignoredRanges  its ignoredRanges array                                  *)
(*   pc             "loop" inside the for loop, "returned" after return mrr, *)
(*                  "threw" when restrictiveRange's error left the function; *)
(*                  "args" and "called" for a direct restrictiveRange call   *)
(*   step           what the last iteration did                              *)
(*   call           the last restrictiveRange call: arguments and result     *)
(*   ctx            the CheckCommandContext the tasks share                  *)
(*   title          parent.title, as outputComputedConstraints sets it       *)
(*   written        the calls of writeJson, in order                         *)
(*   log            the tasks of the check command run or skipped, in order  *)
(*   error          the message of the error a task threw, or "none"         *)
(*   humanized      the last humanizeRange call: argument and result         *)
(***************************************************************************)
VARIABLES packages, mrr, ignoredRanges, pc, step, call,
          ctx, title, written, log, error, humanized

\* the state of the check command's tasks (described with the tasks below)
taskVars == <<ctx, title, written, log, error, humanized>>

vars == <<packages, mrr, ignoredRanges, pc, step, call, taskVars>>

NoCall == [r1 |-> Range(<<StarTok>>), r2 |-> Range(<<StarTok>>), before |-> <<>>,
           ret |-> Thrown("none", <<>>)]

\* an optional value: absent (undefined) or present
None == <<>>
Some(x) == <<x>>
IsSome(o) == Len(o) = 1
Value(o) == o[1]

\* a context in which nothing is defined yet
EmptyCtx ==
    [engines |-> None, update |-> FALSE,
     packageObject |-> [data |-> None, relativePath |-> None],
     packageLockObject |-> [data |-> None, relativePath |-> None],
     ranges |-> None, rangesSimplified |-> None]

\* parent.title before a task sets it
NoTitle == [kind |-> "none", rows |-> <<>>, hint |-> FALSE]

NotHumanized == [range |-> None, ret |-> <<>>]

\* no task has been called
TasksIdle ==
    /\ ctx = EmptyCtx
    /\ title = NoTitle
    /\ written = <<>>
    /\ log = <<>>
    /\ error = "none"
    /\ humanized = NotHumanized

\* semver.validRange(constraint) of a package: the normalized text
rawValidRange(pkg) == validRange(pkg.text)

\* line 278-279: let mrr = new semver.Range('*'); const ignoredRanges = []
Init ==
    /\ packages = <<>>
    /\ mrr = Range(<<StarTok>>)
    /\ ignoredRanges = <<>>
    /\ pc = "loop"
    /\ step = "none"
    /\ call = NoCall
    /\ TasksIdle

CanIterate(bound) == pc = "loop" /\ Len(packages) < bound

\* lines 286-291: the package has no constraint for the engine
SkipNoConstraint(pkg, bound) ==
    /\ CanIterate(bound)
    /\ pkg.kind = "absent"
    /\ packages' = Append(packages, pkg)
    /\ step' = "absent"
    /\ UNCHANGED <<mrr, ignoredRanges, pc, call, taskVars>>

\* an invalid range that is fatal to the aggregation
InvalidRangeThrows(pkg, bound) ==
    /\ CanIterate(bound)
    /\ pkg.kind = "invalid"
    /\ packages' = Append(packages, pkg)
    /\ step' = "invalid"
    /\ pc' = "threw"
    /\ UNCHANGED <<mrr, ignoredRanges, call, taskVars>>

\* lines 293-297: semver.validRange returns null
SkipInvalidRange(pkg, bound) ==
    /\ CanIterate(bound)
    /\ pkg.kind = "invalid"
    /\ packages' = Append(packages, pkg)
    /\ step' = "invalid"
    /\ UNCHANGED <<mrr, ignoredRanges, pc, call, taskVars>>

\* an ignoredRanges that is never consulted
NeverInIgnoredRanges(text) == FALSE

\* line 299: ignoredRanges.indexOf(rawValidRange) !== -1
InIgnoredRanges(text) == \E i \in 1..Len(ignoredRanges) : ignoredRanges[i] = text

\* lines 299-302: the normalized text is in ignoredRanges
SkipIgnoredRange(pkg, bound) ==
    /\ CanIterate(bound)
    /\ pkg.kind = "text"
    /\ InIgnoredRanges(rawValidRange(pkg))
    /\ packages' = Append(packages, pkg)
    /\ step' = "ignored"
    /\ UNCHANGED <<mrr, ignoredRanges, pc, call, taskVars>>

\* lines 312-316: restrictiveRange returns and mrr is replaced when the text
\* differs, or it throws and the error leaves computeEnginesConstraint
Reduced(range, ret) ==
    /\ call' = [r1 |-> mrr, r2 |-> range, before |-> ignoredRanges, ret |-> ret]
    /\ ignoredRanges' = ignoredRanges \o ret.pushed
    /\ mrr' = IF ret.status = "ok" /\ mrr.raw # ret.range.raw THEN ret.range ELSE mrr
    /\ step' = IF ret.status = "ok" THEN "reduced" ELSE "threw"
    /\ pc' = IF ret.status = "ok" THEN pc ELSE "threw"

\* lines 304-316: the text is valid and not ignored: restrictiveRange is called
Reduce(pkg, bound) ==
    /\ CanIterate(bound)
    /\ pkg.kind = "text"
    /\ ~InIgnoredRanges(rawValidRange(pkg))
    /\ Reduced(Range(rawValidRange(pkg)), restrictiveRange(mrr, Range(rawValidRange(pkg))))
    /\ packages' = Append(packages, pkg)
    /\ UNCHANGED taskVars

\* lines 319-325: the loop is over, return mrr
Return ==
    /\ pc = "loop"
    /\ pc' = "returned"
    /\ UNCHANGED <<packages, mrr, ignoredRanges, step, call, taskVars>>

Next ==
    \/ \E pkg \in Packages :
          \/ SkipNoConstraint(pkg, MaxDeps)
          \/ SkipInvalidRange(pkg, MaxDeps)
          \/ SkipIgnoredRange(pkg, MaxDeps)
          \/ Reduce(pkg, MaxDeps)
    \/ Return

\* computeEnginesConstraint over any list of at most MaxDeps packages
Spec == Init /\ [][Next]_vars

NextDuplicates ==
    \/ \E pkg \in DuplicatePackages :
          \/ SkipIgnoredRange(pkg, MaxDupDeps)
          \/ Reduce(pkg, MaxDupDeps)
    \/ Return

\* computeEnginesConstraint over the lists of the duplicate-constraints test
SpecDuplicates == Init /\ [][NextDuplicates]_vars

\* the packages of the 'should compute mrr & skip invalid range' test, a
\* package without constraint and two ranges on which restrictiveRange throws
SkipPackages ==
    DuplicatePackages
    \cup {InvalidConstraint, NoConstraint,
          Declared(<<Tok("^", SemVer(1, 0, 0)), OrTok, Tok("^", SemVer(3, 0, 0))>>),
          Declared(<<Tok("^", SemVer(2, 0, 0))>>)}

NextSkips ==
    \/ \E pkg \in SkipPackages :
          \/ SkipNoConstraint(pkg, MaxSkipDeps)
          \/ SkipInvalidRange(pkg, MaxSkipDeps)
          \/ SkipIgnoredRange(pkg, MaxSkipDeps)
          \/ Reduce(pkg, MaxSkipDeps)
    \/ Return

\* computeEnginesConstraint over lists that hold invalid constraints
SpecSkips == Init /\ [][NextSkips]_vars

(***************************************************************************)
(* restrictiveRange called directly, as the unit tests do.                  *)
(***************************************************************************)
InitReducer ==
    /\ packages = <<>>
    /\ mrr = Range(<<StarTok>>)
    /\ ignoredRanges \in {<<>>, <<<<StarTok>>>>}
    /\ pc = "args"
    /\ step = "none"
    /\ \E t1 \in RangeTexts, t2 \in RangeTexts :
          call = [NoCall EXCEPT !.r1 = Range(t1), !.r2 = Range(t2), !.before = ignoredRanges]
    /\ TasksIdle

Returned(ret) ==
    /\ call' = [call EXCEPT !.ret = ret]
    /\ ignoredRanges' = ignoredRanges \o ret.pushed

\* restrictiveRange(r1, r2, ignoredRanges): returns or throws
Call ==
    /\ pc = "args"
    /\ Returned(restrictiveRange(call.r1, call.r2))
    /\ pc' = "called"
    /\ UNCHANGED <<packages, mrr, step, taskVars>>

NextReducer == Call

SpecReducer == InitReducer /\ [][NextReducer]_vars

(***************************************************************************)
(* restrictiveRange called on the universal range and on ranges whose lower *)
(* bound is a prerelease, next to caret and open-ended ranges.              *)
(***************************************************************************)
\* '>=x.0.0-0'
PrereleaseRuns == {<<Tok(">=", SemVerPre0(ma, 0, 0))>> : ma \in Majors}

DepthTexts == CaretRuns \cup OpenRuns \cup CaretThenTexts \cup PrereleaseRuns \cup {<<StarTok>>}

InitDepth ==
    /\ packages = <<>>
    /\ mrr = Range(<<StarTok>>)
    /\ ignoredRanges = <<>>
    /\ pc = "args"
    /\ step = "none"
    /\ \E t1 \in DepthTexts, t2 \in DepthTexts :
          call = [NoCall EXCEPT !.r1 = Range(t1), !.r2 = Range(t2), !.before = ignoredRanges]
    /\ TasksIdle

NextDepth == Call

SpecDepth == InitDepth /\ [][NextDepth]_vars

(***************************************************************************)
(* sortRangeSet and applyMinVersionToRangeSet called directly on the group  *)
(* lists of parsed ranges, as the 'should sort range' test does. Here call  *)
(* holds the group list given, the floor version, the list returned and the *)
(* range setToRange rebuilds from it.                                       *)
(***************************************************************************)
\* two different groups with the same first version, in both orders
SameFirstTexts ==
    {a \o <<OrTok>> \o b :
        <<a, b>> \in {p \in (CaretRuns \cup NarrowRuns \cup OpenRuns) \X (CaretRuns \cup NarrowRuns \cup OpenRuns) :
                        p[1] # p[2] /\ p[1][1].v = p[2][1].v}}

\* three groups: the highest major first, and two of the lowest major around
\* a higher one
ThreeGroupTexts ==
    {<<Tok("^", SemVer(ma + 1, 0, 0)), OrTok, Tok("^", SemVer(ma - 1, 0, 0)), OrTok, Tok("^", SemVer(ma, 0, 0))>> :
        ma \in Majors \ {1}}
    \cup {<<Tok("^", SemVer(ma, 0, 0)), OrTok, Tok("^", SemVer(ma + 1, 0, 0)), OrTok,
            Tok(">=", SemVer(ma, 0, 0)), Tok("<", SemVer(ma, 1, 0))>> : ma \in Majors}

SetTexts == RangeTexts \cup SameFirstTexts \cup ThreeGroupTexts

\* the floor versions: the minimum versions of the ranges, and 0.x
Floors == {SemVer(ma, mi, 0) : ma \in 0..MaxMajor, mi \in Minors}

InitSets ==
    /\ packages = <<>>
    /\ mrr = Range(<<StarTok>>)
    /\ ignoredRanges = <<>>
    /\ pc = "set"
    /\ step = "none"
    /\ \E t \in SetTexts, minV \in Floors :
          call = [set |-> Range(t).set, minVersion |-> minV, ret |-> <<>>, range |-> Range(<<StarTok>>)]
    /\ TasksIdle

\* sortRangeSet(set)
CallSortRangeSet ==
    /\ pc = "set"
    /\ call' = [call EXCEPT !.ret = sortRangeSet(call.set)]
    /\ pc' = "sorted"
    /\ UNCHANGED <<packages, mrr, ignoredRanges, step, taskVars>>

\* applyMinVersionToRangeSet(set, minVersion)
CallApplyMinVersion ==
    /\ pc = "set"
    /\ call' = [call EXCEPT !.ret = applyMinVersionToRangeSet(call.set, call.minVersion)]
    /\ pc' = "aligned"
    /\ UNCHANGED <<packages, mrr, ignoredRanges, step, taskVars>>

\* lines 132-133: setToRange(applyMinVersionToRangeSet(sorted, minSemver))
CallSetToRange ==
    /\ pc = "aligned"
    /\ call' = [call EXCEPT !.range = setToRange(call.ret)]
    /\ pc' = "rebuilt"
    /\ UNCHANGED <<packages, mrr, ignoredRanges, step, taskVars>>

NextSets ==
    \/ CallSortRangeSet
    \/ CallApplyMinVersion
    \/ CallSetToRange

SpecSets == InitSets /\ [][NextSets]_vars

(***************************************************************************)
(* lib/tasks: getConstraintFromEngines                                      *)
(*                                                                          *)
(* An engine name is the sequence of its characters. An entry of an engines *)
(* value is a name and a constraint string: the property name: value of the *)
(* object shape, the string '<name> <constraint>' of the array shape. The   *)
(* constraint strings hold no letter of an engine name.                     *)
(***************************************************************************)
Node == <<"n", "o", "d", "e">>
Npm == <<"n", "p", "m">>
Yarn == <<"y", "a", "r", "n">>
Pnpm == <<"p", "n", "p", "m">>
Foo == <<"f", "o", "o">>

\* the engine keys the command recognizes
EngineConstraintKeys == <<Node, Npm, Yarn>>

EngineEntry(name, constraint) == [name |-> name, constraint |-> constraint]
EnginesObject(entries) == [shape |-> "object", entries |-> entries]
EnginesArray(entries) == [shape |-> "array", entries |-> entries]
\* a package without an engines property
NoEngines == [shape |-> "none", entries |-> <<>>]

inSeq(seq, x) == \E i \in 1..Len(seq) : seq[i] = x

\* key is found in s at position i
IsAt(s, key, i) == i + Len(key) - 1 <= Len(s) /\ SubSeq(s, i, i + Len(key) - 1) = key

\* String.prototype.includes
includes(s, key) == \E i \in 1..Len(s) : IsAt(s, key, i)

indexOf(s, key) == CHOOSE i \in 1..Len(s) : IsAt(s, key, i) /\ \A j \in 1..(i - 1) : ~IsAt(s, key, j)

removeAt(s, key, i) == SubSeq(s, 1, i - 1) \o SubSeq(s, i + Len(key), Len(s))

\* String.prototype.replace(key, ''): the first occurrence is removed
replace(s, key) == IF includes(s, key) THEN removeAt(s, key, indexOf(s, key)) ELSE s

\* line 260-261: the property named constraintKey
objectConstraint(entries, key) ==
    entries[CHOOSE i \in 1..Len(entries) : entries[i].name = key].constraint

\* line 263: engines.find(constraint => constraint.includes(constraintKey))
findIncluding(entries, key) ==
    entries[CHOOSE i \in 1..Len(entries) :
                /\ includes(entries[i].name, key)
                /\ \A j \in 1..(i - 1) : ~includes(entries[j].name, key)]

\* line 263: the entry with the key removed: what is left of the name, a
\* space and the constraint. With nothing left of the name it is the
\* constraint (semver trims the space); a rest such as 'p' makes the string
\* one that is no semver range.
replacedConstraint(entry, key) ==
    IF replace(entry.name, key) = <<>> THEN entry.constraint ELSE InvalidConstraint

getConstraintFromEngines(engines, constraintKey) ==
    IF engines.shape = "object" /\ \E i \in 1..Len(engines.entries) : engines.entries[i].name = constraintKey
    THEN objectConstraint(engines.entries, constraintKey)
    ELSE IF /\ engines.shape = "array"
            /\ \E i \in 1..Len(engines.entries) : includes(engines.entries[i].name, constraintKey)
    THEN replacedConstraint(findIncluding(engines.entries, constraintKey), constraintKey)
    ELSE NoConstraint

(***************************************************************************)
(* lib/tasks: computeEnginesConstraint as a function of the package list,   *)
(* and computeEnginesConstraints.                                           *)
(***************************************************************************)
\* line 278-279
FoldStart == [status |-> "ok", mrr |-> Range(<<StarTok>>), ignoredRanges |-> <<>>]

\* lines 312-316: an error of restrictiveRange leaves the function
afterReduce(st, ret) ==
    IF ret.status # "ok" THEN [st EXCEPT !.status = ret.status]
    ELSE [status |-> "ok",
          mrr |-> IF st.mrr.raw # ret.range.raw THEN ret.range ELSE st.mrr,
          ignoredRanges |-> st.ignoredRanges \o ret.pushed]

\* lines 284-316: one iteration of the loop, on the constraint of the package
eachConstraint(st, c) ==
    IF st.status # "ok" \/ c.kind # "text" THEN st
    ELSE IF inSeq(st.ignoredRanges, validRange(c.text)) THEN st
    ELSE afterReduce(st, restrictiveRange(st.mrr, Range(validRange(c.text))))

RECURSIVE foldPackages(_, _, _)
foldPackages(pkgs, constraintKey, st) ==
    IF pkgs = <<>> THEN st
    ELSE foldPackages(Tail(pkgs), constraintKey,
                      eachConstraint(st, getConstraintFromEngines(Head(pkgs).engines, constraintKey)))

\* a run that starts with the texts the run for 'node' recorded over the same
\* packages, as with one ignoredRanges list kept between the calls
computeEnginesConstraintSharedList(pkgs, constraintKey) ==
    foldPackages(pkgs, constraintKey,
                 [FoldStart EXCEPT !.ignoredRanges = foldPackages(pkgs, Node, FoldStart).ignoredRanges])

\* the record's status is "ok" with the range returned in mrr, or the error
computeEnginesConstraint(pkgs, constraintKey) == foldPackages(pkgs, constraintKey, FoldStart)

\* the message of the error restrictiveRange throws
ErrorOf(status) ==
    IF status = "nyi" THEN "Not yet implemented :/"
    ELSE IF status = "invalid" THEN "Invalid Version: *"
    ELSE "Maximum call stack size exceeded"

\* lines 343-351
filterEngineConstraintKey(key) == inSeq(EngineConstraintKeys, key)

\* the selection taken as it is
constraintKeysUnfiltered(c) ==
    IF IsSome(c.engines) /\ Len(Value(c.engines)) > 0
    THEN Value(c.engines)
    ELSE EngineConstraintKeys

constraintKeysOf(c) ==
    IF IsSome(c.engines) /\ Len(Value(c.engines)) > 0
    THEN SelectSeq(Value(c.engines), filterEngineConstraintKey)
    ELSE EngineConstraintKeys

\* line 360: [['', { engines: packageObject.data.engines || {} }]]
ownPackages(c) ==
    <<[engines |-> IF IsSome(Value(c.packageObject.data).engines)
                   THEN Value(Value(c.packageObject.data).engines)
                   ELSE EnginesObject(<<>>)]>>

lockPackages(c) == Value(Value(c.packageLockObject.data).packages)

\* Map.prototype.set: a key already present keeps its place
mapSet(map, key, value) ==
    IF \E i \in 1..Len(map) : map[i].key = key
    THEN [i \in 1..Len(map) |-> IF map[i].key = key THEN [key |-> key, value |-> value] ELSE map[i]]
    ELSE Append(map, [key |-> key, value |-> value])

RECURSIVE rangesFrom(_, _, _)
setChange(keys, c, ranges, from, to) ==
    IF from.status # "ok" THEN [error |-> ErrorOf(from.status), ranges |-> <<>>]
    ELSE IF to.status # "ok" THEN [error |-> ErrorOf(to.status), ranges |-> <<>>]
    ELSE rangesFrom(Tail(keys), c, mapSet(ranges, Head(keys), [from |-> from.mrr, to |-> to.mrr]))

\* lines 357-366: the loop over the constraint keys
rangesFrom(keys, c, ranges) ==
    IF keys = <<>> THEN [error |-> "none", ranges |-> ranges]
    ELSE setChange(keys, c, ranges,
                   computeEnginesConstraint(ownPackages(c), Head(keys)),
                   computeEnginesConstraint(lockPackages(c), Head(keys)))

\* lines 328-369: the error thrown, or "none" and the ranges set in ctx
computeEnginesConstraints(c) ==
    IF ~IsSome(c.packageObject.data)
    THEN [error |-> "package.json data is not defined.", ranges |-> <<>>]
    ELSE IF ~IsSome(c.packageLockObject.data)
    THEN [error |-> "package-lock.json data is not defined.", ranges |-> <<>>]
    ELSE IF ~IsSome(Value(c.packageLockObject.data).packages)
    THEN [error |-> "package-lock.json does not contain packages property.", ranges |-> <<>>]
    ELSE IF constraintKeysOf(c) = <<>>
    THEN [error |-> "No valid constraint key(s).", ranges |-> <<>>]
    ELSE rangesFrom(constraintKeysOf(c), c, <<>>)

\* ranges published whatever the outcome
computedPartial(c, res) == [c EXCEPT !.ranges = Some(res.ranges)]

\* line 368: ctx.ranges = ranges, unless an error left the function before
computed(c, res) == IF res.error = "none" THEN [c EXCEPT !.ranges = Some(res.ranges)] ELSE c

(***************************************************************************)
(* computeEnginesConstraints called directly on a context.                  *)
(***************************************************************************)
Caret1Or3 == <<Tok("^", SemVer(1, 0, 0)), OrTok, Tok("^", SemVer(3, 0, 0))>>
Caret2 == <<Tok("^", SemVer(2, 0, 0))>>
GTE110 == <<Tok(">=", SemVer(1, 1, 0))>>
GTE100Pre == <<Tok(">=", SemVerPre0(1, 0, 0))>>

\* the constraint strings of the lock file: four ranges and '>=a.b.c'
ConstraintStrings ==
    {Declared(Caret1Or3), Declared(Caret2), Declared(GTE110), Declared(GTE100Pre), InvalidConstraint}

\* engines values: none, { node: c }, ['node c'] for two of the strings,
\* and the two shapes of a value that names pnpm and npm
EnginesValues ==
    {NoEngines}
    \cup {EnginesObject(<<EngineEntry(Node, c)>>) : c \in ConstraintStrings}
    \cup {EnginesArray(<<EngineEntry(Node, c)>>) : c \in {Declared(Caret2), Declared(GTE110)}}
    \cup {EnginesObject(<<EngineEntry(Pnpm, Declared(Caret2)), EngineEntry(Npm, Declared(GTE110))>>),
          EnginesArray(<<EngineEntry(Pnpm, Declared(Caret2)), EngineEntry(Npm, Declared(GTE110))>>),
          EnginesArray(<<EngineEntry(Npm, Declared(GTE110)), EngineEntry(Pnpm, Declared(Caret2))>>)}

LockPackages == {[engines |-> e] : e \in EnginesValues}

RECURSIVE ListsUpTo(_, _)
ListsUpTo(S, n) ==
    IF n = 0 THEN {<<>>}
    ELSE ListsUpTo(S, n - 1) \cup {Append(l, x) : l \in {m \in ListsUpTo(S, n - 1) : Len(m) = n - 1}, x \in S}

\* package-lock.json as loaded: no data, no packages property, or packages
LockData ==
    {None, Some([packages |-> None])}
    \cup {Some([packages |-> Some(l)]) : l \in ListsUpTo(LockPackages, MaxLockDeps)}

\* package.json as loaded: no data, no engines, or engines { node: '>=1.1.0' }
PackageData ==
    {None, Some([engines |-> None]),
     Some([engines |-> Some(EnginesObject(<<EngineEntry(Node, Declared(GTE110))>>))])}

\* the -e options of the command line
EngineSelections ==
    {None, Some(<<>>), Some(<<Node>>), Some(<<Foo>>), Some(<<Foo, Node>>), Some(<<Npm, Node, Npm>>)}

\* ranges a previous run left in the context
OldRanges == <<[key |-> Yarn, value |-> [from |-> Range(<<StarTok>>), to |-> Range(<<StarTok>>)]]>>

InitCompute ==
    /\ packages = <<>>
    /\ mrr = Range(<<StarTok>>)
    /\ ignoredRanges = <<>>
    /\ pc = "compute"
    /\ step = "none"
    /\ call = NoCall
    /\ title = NoTitle
    /\ written = <<>>
    /\ log = <<>>
    /\ error = "none"
    /\ humanized = NotHumanized
    /\ \E e \in EngineSelections, pd \in PackageData, ld \in LockData, r \in {None, Some(OldRanges)} :
          ctx = [EmptyCtx EXCEPT !.engines = e, !.packageObject.data = pd,
                                 !.packageLockObject.data = ld, !.ranges = r]

Computes(res) ==
    /\ ctx' = computed(ctx, res)
    /\ error' = res.error

CallCompute ==
    /\ pc = "compute"
    /\ Computes(computeEnginesConstraints(ctx))
    /\ pc' = "computed"
    /\ UNCHANGED <<packages, mrr, ignoredRanges, step, call, title, written, log, humanized>>

NextCompute == CallCompute

SpecCompute == InitCompute /\ [][NextCompute]_vars

(***************************************************************************)
(* computeEnginesConstraints on lock files whose packages constrain 'node'  *)
(* or 'npm', the engines selected in either order.                          *)
(***************************************************************************)
MaxEngineDeps == 3

EnginePackages ==
    {[engines |-> EnginesObject(<<EngineEntry(key, Declared(t))>>)] :
        key \in {Node, Npm}, t \in {Caret2, GTE110, Caret1Or3}}

EngineOrders == {None, Some(<<Node>>), Some(<<Npm>>), Some(<<Node, Npm>>), Some(<<Npm, Node>>)}

InitEngines ==
    /\ packages = <<>>
    /\ mrr = Range(<<StarTok>>)
    /\ ignoredRanges = <<>>
    /\ pc = "compute"
    /\ step = "none"
    /\ call = NoCall
    /\ title = NoTitle
    /\ written = <<>>
    /\ log = <<>>
    /\ error = "none"
    /\ humanized = NotHumanized
    /\ \E e \in EngineOrders, pd \in PackageData \ {None}, l \in ListsUpTo(EnginePackages, MaxEngineDeps) :
          ctx = [EmptyCtx EXCEPT !.engines = e, !.packageObject.data = pd,
                                 !.packageLockObject.data = Some([packages |-> Some(l)])]

NextEngines == CallCompute

SpecEngines == InitEngines /\ [][NextEngines]_vars

(***************************************************************************)
(* lib/tasks: humanizeRange. The string returned is a token sequence: a     *)
(* caret token per simplified group, comparator values, ' || ' between the  *)
(* groups.                                                                  *)
(***************************************************************************)
\* the separator of res.join(' || ')
SpacedOrTok == Tok(" || ", ANY)

RECURSIVE JoinSpacedOr(_)
JoinSpacedOr(ss) ==
    IF ss = <<>> THEN <<>>
    ELSE IF Len(ss) = 1 THEN Head(ss)
    ELSE Head(ss) \o <<SpacedOrTok>> \o JoinSpacedOr(Tail(ss))

\* a group never rendered with a caret
renderLiteral(comps) ==
    IF Len(comps) = 1 /\ comps[1].operator = ">="
    THEN ComparatorValue(comps[1])
    ELSE ComparatorValue(comps[1]) \o (IF Len(comps) >= 2 THEN ComparatorValue(comps[2]) ELSE <<>>)

\* lines 168-180: const [from, to] = comps, and what is pushed to res
renderGroup(comps) ==
    IF /\ Len(comps) = 2
       /\ comps[1].operator = ">="
       /\ comps[2].operator = "<"
       /\ comps[1].semver.major + 1 = comps[2].semver.major
    THEN <<Tok("^", comps[1].semver)>>
    ELSE IF Len(comps) = 1 /\ comps[1].operator = ">="
    THEN ComparatorValue(comps[1])
    ELSE ComparatorValue(comps[1]) \o (IF Len(comps) >= 2 THEN ComparatorValue(comps[2]) ELSE <<>>)

renderSet(set) == JoinSpacedOr([i \in 1..Len(set) |-> renderGroup(set[i])])

\* lines 158-184; range is None for undefined
humanizeRange(range) ==
    IF ~IsSome(range) \/ Value(range).raw = <<StarTok>> THEN <<StarTok>>
    ELSE renderSet(sortRangeSet(Value(range).set))

(***************************************************************************)
(* humanizeRange called directly on a range.                                *)
(***************************************************************************)
\* '>=x.y.0 <(x+1).0.0-0' for the majors from 0
ExplicitCaretTexts ==
    {<<Tok(">=", SemVer(ma, mi, 0)), Tok("<", SemVerPre0(ma + 1, 0, 0))>> : ma \in 0..MaxMajor, mi \in Minors}

\* the ranges of the 'should simplify range' tests
TestCaretCaret ==
    <<Tok(">=", SemVer(14, 17, 0)), Tok("<", SemVerPre0(15, 0, 0)), OrTok,
      Tok(">=", SemVer(16, 10, 0)), Tok("<", SemVerPre0(17, 0, 0))>>
TestCaretOpen ==
    <<Tok(">=", SemVer(14, 17, 0)), Tok("<", SemVerPre0(15, 0, 0)), OrTok, Tok(">=", SemVer(16, 10, 0))>>
TestGT == <<Tok(">", SemVer(14, 17, 0))>>
TestExact == <<Tok("", SemVer(14, 17, 0))>>

\* '', '>=0.0.0', and a caret group with a third comparator
EmptyText == <<>>
GTE000 == <<Tok(">=", SemVer(0, 0, 0))>>
CaretBelow == <<Tok("^", SemVer(1, 0, 0)), Tok("<", SemVer(1, 1, 0))>>

\* '>=x.0.0 <(x+1).1.0': the upper bound is beyond the next major
BeyondNextMajorTexts ==
    {<<Tok(">=", SemVer(ma, 0, 0)), Tok("<", SemVer(ma + 1, 1, 0))>> : ma \in Majors}

HumanizeTexts ==
    RangeTexts \cup ExplicitCaretTexts \cup BeyondNextMajorTexts
    \cup {<<StarTok>>, EmptyText, GTE000, CaretBelow, TestCaretCaret, TestCaretOpen, TestGT, TestExact}

InitHumanize ==
    /\ packages = <<>>
    /\ mrr = Range(<<StarTok>>)
    /\ ignoredRanges = <<>>
    /\ pc = "humanize"
    /\ step = "none"
    /\ call = NoCall
    /\ ctx = EmptyCtx
    /\ title = NoTitle
    /\ written = <<>>
    /\ log = <<>>
    /\ error = "none"
    /\ \E range \in {None} \cup {Some(Range(t)) : t \in HumanizeTexts} :
          humanized = [range |-> range, ret |-> <<>>]

CallHumanize ==
    /\ pc = "humanize"
    /\ humanized' = [humanized EXCEPT !.ret = humanizeRange(humanized.range)]
    /\ pc' = "humanized"
    /\ UNCHANGED <<packages, mrr, ignoredRanges, step, call, ctx, title, written, log, error>>

NextHumanize == CallHumanize

SpecHumanize == InitHumanize /\ [][NextHumanize]_vars

(***************************************************************************)
(* lib/tasks: outputComputedConstraints. The title is the kind of the text  *)
(* (up-to-date, or the table), the rows of the table and whether the hint   *)
(* to run the update command is appended.                                   *)
(***************************************************************************)
\* the engine is reported whenever its two ranges are not the same range
changedRange(entry) == entry.value.to # entry.value.from

\* lines 447-452: the negation of the test that continues the loop
changed(entry) ==
    humanizeRange(Some(entry.value.to)) # humanizeRange(Some(entry.value.from))

\* line 454: rangesSimplified.set(engine, rangeToHumanized)
simplifiedOf(ranges) ==
    [i \in 1..Len(SelectSeq(ranges, changed)) |->
        [key |-> SelectSeq(ranges, changed)[i].key,
         value |-> humanizeRange(Some(SelectSeq(ranges, changed)[i].value.to))]]

\* line 464: colValues
rowsOf(ranges) ==
    [i \in 1..Len(SelectSeq(ranges, changed)) |->
        <<SelectSeq(ranges, changed)[i].key,
          humanizeRange(Some(SelectSeq(ranges, changed)[i].value.from)),
          humanizeRange(Some(SelectSeq(ranges, changed)[i].value.to))>>]

\* lines 467-479
titleOf(simplified, rows, update) ==
    IF Len(simplified) = 0 THEN [kind |-> "up-to-date", rows |-> <<>>, hint |-> FALSE]
    ELSE [kind |-> "table", rows |-> rows, hint |-> ~update]

\* lines 435-483: the error thrown, or "none" with the title and the map set
outputComputedConstraints(c) ==
    IF ~IsSome(c.ranges)
    THEN [error |-> "Computed engines range constraints are not defined.",
          title |-> NoTitle, rangesSimplified |-> <<>>]
    ELSE [error |-> "none",
          title |-> titleOf(simplifiedOf(Value(c.ranges)), rowsOf(Value(c.ranges)), c.update),
          rangesSimplified |-> simplifiedOf(Value(c.ranges))]

\* the assignments to parent.title and ctx.rangesSimplified
Outputs(res) ==
    /\ error' = res.error
    /\ title' = IF res.error = "none" THEN res.title ELSE title
    /\ ctx' = IF res.error = "none" THEN [ctx EXCEPT !.rangesSimplified = Some(res.rangesSimplified)] ELSE ctx

(***************************************************************************)
(* outputComputedConstraints called directly on a context.                  *)
(***************************************************************************)
GTE100LT200 == <<Tok(">=", SemVer(1, 0, 0)), Tok("<", SemVerPre0(2, 0, 0))>>

\* '*', '', '^1.0.0', '>=1.0.0 <2.0.0-0', '>=1.1.0' and the range of the test
OutputRanges ==
    {Range(t) : t \in {<<StarTok>>, EmptyText, <<Tok("^", SemVer(1, 0, 0))>>, GTE100LT200, GTE110, TestCaretCaret}}

Changes == {[from |-> f, to |-> t] : f \in OutputRanges, t \in OutputRanges}

\* ctx.ranges: no engine, node, or node and npm
RangesMaps ==
    {<<>>}
    \cup {<<[key |-> Node, value |-> c]>> : c \in Changes}
    \cup {<<[key |-> Node, value |-> c], [key |-> Npm, value |-> d]>> : c \in Changes, d \in Changes}

OldSimplified == <<[key |-> Yarn, value |-> <<StarTok>>]>>

InitOutput ==
    /\ packages = <<>>
    /\ mrr = Range(<<StarTok>>)
    /\ ignoredRanges = <<>>
    /\ pc = "output"
    /\ step = "none"
    /\ call = NoCall
    /\ title = NoTitle
    /\ written = <<>>
    /\ log = <<>>
    /\ error = "none"
    /\ humanized = NotHumanized
    /\ \E r \in {None} \cup {Some(m) : m \in RangesMaps}, u \in BOOLEAN, rs \in {None, Some(OldSimplified)} :
          ctx = [EmptyCtx EXCEPT !.ranges = r, !.update = u, !.rangesSimplified = rs]

CallOutput ==
    /\ pc = "output"
    /\ Outputs(outputComputedConstraints(ctx))
    /\ pc' = "outputDone"
    /\ UNCHANGED <<packages, mrr, ignoredRanges, step, call, written, log, humanized>>

NextOutput == CallOutput

SpecOutput == InitOutput /\ [][NextOutput]_vars

(***************************************************************************)
(* lib/tasks: updatePackageJson. Of the data of package.json the engines    *)
(* property is modelled; writeJson appends the path and the object written  *)
(* to the variable written.                                                 *)
(***************************************************************************)
PackageJsonPath == "package.json"

\* the order of the characters of the engine names
Alphabet == <<"a", "d", "e", "f", "m", "n", "o", "p", "r", "y">>

CharCode(ch) == CHOOSE i \in 1..Len(Alphabet) : Alphabet[i] = ch

RECURSIVE NameBefore(_, _)
NameBefore(a, b) ==
    IF a = <<>> THEN b # <<>>
    ELSE IF b = <<>> THEN FALSE
    ELSE IF Head(a) # Head(b) THEN CharCode(Head(a)) < CharCode(Head(b))
    ELSE NameBefore(Tail(a), Tail(b))

RECURSIVE insertEntry(_, _)
insertEntry(sorted, e) ==
    IF sorted = <<>> THEN <<e>>
    ELSE IF NameBefore(e.name, Head(sorted).name) THEN <<e>> \o sorted
    ELSE <<Head(sorted)>> \o insertEntry(Tail(sorted), e)

RECURSIVE sortEntries(_)
sortEntries(entries) ==
    IF entries = <<>> THEN <<>> ELSE insertEntry(sortEntries(Tail(entries)), Head(entries))

\* sortPackageJson: a copy of the data, the keys of engines in order
sortPackageJson(data) ==
    IF IsSome(data.engines)
    THEN [data EXCEPT !.engines = Some(EnginesObject(sortEntries(Value(data.engines).entries)))]
    ELSE data

\* a merge that keeps the assigned property alone
mergeEntryAlone(entries, key, value) == <<EngineEntry(key, Declared(value))>>

\* one property assigned by lodash.merge: an own key keeps its place
mergeEntry(entries, key, value) ==
    IF \E i \in 1..Len(entries) : entries[i].name = key
    THEN [i \in 1..Len(entries) |->
             IF entries[i].name = key THEN EngineEntry(key, Declared(value)) ELSE entries[i]]
    ELSE Append(entries, EngineEntry(key, Declared(value)))

RECURSIVE mergeEntries(_, _)
mergeEntries(entries, simplified) ==
    IF simplified = <<>> THEN entries
    ELSE mergeEntries(mergeEntry(entries, Head(simplified).key, Head(simplified).value), Tail(simplified))

\* line 500: lodash.merge({}, data.engines, Object.fromEntries(rangesSimplified))
mergedEngines(data, simplified) ==
    Some(EnginesObject(mergeEntries(IF IsSome(data.engines) THEN Value(data.engines).entries ELSE <<>>,
                                    simplified)))

\* the checks of lines 492-498 with the data tested first
updatePackageJsonDataFirst(c) ==
    IF ~IsSome(c.packageObject.data)
    THEN [error |-> "package.json data is not defined.", data |-> c.packageObject.data, writes |-> <<>>]
    ELSE IF ~IsSome(c.rangesSimplified)
    THEN [error |-> "Simplified computed engines range constraints are not defined.",
          data |-> c.packageObject.data, writes |-> <<>>]
    ELSE IF ~IsSome(c.packageObject.relativePath)
    THEN [error |-> "package.json path is not defined.", data |-> c.packageObject.data, writes |-> <<>>]
    ELSE [error |-> "none",
          data |-> Some([Value(c.packageObject.data) EXCEPT
                            !.engines = mergedEngines(Value(c.packageObject.data), Value(c.rangesSimplified))]),
          writes |-> <<[path |-> Value(c.packageObject.relativePath),
                        data |-> sortPackageJson(
                            [Value(c.packageObject.data) EXCEPT
                                !.engines = mergedEngines(Value(c.packageObject.data), Value(c.rangesSimplified))])]>>]

\* lines 485-504: the error thrown, or "none"; the data of packageObject
\* after the call and the calls of writeJson
updatePackageJson(c) ==
    IF ~IsSome(c.rangesSimplified)
    THEN [error |-> "Simplified computed engines range constraints are not defined.",
          data |-> c.packageObject.data, writes |-> <<>>]
    ELSE IF ~IsSome(c.packageObject.data)
    THEN [error |-> "package.json data is not defined.", data |-> c.packageObject.data, writes |-> <<>>]
    ELSE IF ~IsSome(c.packageObject.relativePath)
    THEN [error |-> "package.json path is not defined.", data |-> c.packageObject.data, writes |-> <<>>]
    ELSE [error |-> "none",
          data |-> Some([Value(c.packageObject.data) EXCEPT
                            !.engines = mergedEngines(Value(c.packageObject.data), Value(c.rangesSimplified))]),
          writes |-> <<[path |-> Value(c.packageObject.relativePath),
                        data |-> sortPackageJson(
                            [Value(c.packageObject.data) EXCEPT
                                !.engines = mergedEngines(Value(c.packageObject.data), Value(c.rangesSimplified))])]>>]

Updates(res) ==
    /\ error' = res.error
    /\ ctx' = [ctx EXCEPT !.packageObject.data = res.data]
    /\ written' = written \o res.writes

(***************************************************************************)
(* updatePackageJson called directly on a context.                          *)
(***************************************************************************)
\* humanized strings: '^1.0.0', '>=1.1.0', '' and '^14.17.0 || ^16.10.0'
SimplifiedValues ==
    {humanizeRange(Some(r)) : r \in OutputRanges \ {Range(<<StarTok>>)}}

SimplifiedMaps ==
    {<<>>}
    \cup {<<[key |-> k, value |-> v]>> : k \in {Node, Npm, Yarn}, v \in SimplifiedValues}
    \cup {<<[key |-> Yarn, value |-> v], [key |-> Node, value |-> w]>> : v \in SimplifiedValues, w \in SimplifiedValues}

\* package.json as loaded, also with engines { npm: '^2.0.0', node: '>=1.1.0' }
UpdatePackageData ==
    PackageData
    \cup {Some([engines |-> Some(EnginesObject(<<EngineEntry(Npm, Declared(Caret2)),
                                                  EngineEntry(Node, Declared(GTE110))>>))])}

InitUpdate ==
    /\ packages = <<>>
    /\ mrr = Range(<<StarTok>>)
    /\ ignoredRanges = <<>>
    /\ pc = "update"
    /\ step = "none"
    /\ call = NoCall
    /\ title = NoTitle
    /\ written = <<>>
    /\ log = <<>>
    /\ error = "none"
    /\ humanized = NotHumanized
    /\ \E rs \in {None} \cup {Some(m) : m \in SimplifiedMaps}, pd \in UpdatePackageData,
          path \in {None, Some(PackageJsonPath)} :
          ctx = [EmptyCtx EXCEPT !.rangesSimplified = rs, !.packageObject.data = pd,
                                 !.packageObject.relativePath = path, !.update = TRUE]

CallUpdate ==
    /\ pc = "update"
    /\ Updates(updatePackageJson(ctx))
    /\ pc' = "updated"
    /\ UNCHANGED <<packages, mrr, ignoredRanges, step, call, title, log, humanized>>

NextUpdate == CallUpdate

SpecUpdate == InitUpdate /\ [][NextUpdate]_vars

(***************************************************************************)
(* lib/tasks: loadFile and the task list of checkCommandTasks, which Listr  *)
(* runs one task after the other and leaves at the first error. log holds   *)
(* the tasks started, each with its outcome and the file it read.           *)
(***************************************************************************)
PackageLockPath == "package-lock.json"

\* what getJson gives for a file: a rejection, null, or a JSON object with
\* the errors validateFn finds in it
MissingFile == [kind |-> "rejects", data |-> None, errors |-> <<>>]
NullFile == [kind |-> "null", data |-> None, errors |-> <<>>]
JsonFile(data, errors) == [kind |-> "json", data |-> data, errors |-> errors]

\* no file read by the task
NoRead == [kind |-> "none", data |-> None, errors |-> <<>>]

\* the schema of package-lock.json requires the packages property
lockErrors(data) ==
    IF IsSome(Value(data).packages) THEN <<>> ELSE <<"must have required property 'packages'">>

\* a package.json the schema rejects, and the ones it accepts
PackageFiles ==
    {MissingFile, NullFile, JsonFile(Some([engines |-> None]), <<"must match pattern">>)}
    \cup {JsonFile(d, <<>>) : d \in PackageData \ {None}}

LockFiles == {MissingFile, NullFile} \cup {JsonFile(d, lockErrors(d)) : d \in LockData \ {None}}

\* validateFn.errors?.map(e => e.message).join('\n'), for one error
joinMessages(errors) == errors[1]

\* a loadFile that fills the path in before it reads the file
loadFilePathFirst(fileObject, relativePath, file) ==
    IF file.kind \in {"rejects", "null"}
    THEN [error |-> relativePath \o " is not defined.",
          fileObject |-> [fileObject EXCEPT !.relativePath = Some(relativePath)]]
    ELSE IF file.errors # <<>>
    THEN [error |-> joinMessages(file.errors),
          fileObject |-> [fileObject EXCEPT !.relativePath = Some(relativePath)]]
    ELSE [error |-> "none",
          fileObject |-> [fileObject EXCEPT !.relativePath = Some(relativePath), !.data = file.data]]

\* lines 186-220: the error thrown, or "none" and the file object filled
loadFile(fileObject, relativePath, file) ==
    IF file.kind \in {"rejects", "null"}
    THEN [error |-> relativePath \o " is not defined.", fileObject |-> fileObject]
    ELSE IF file.errors # <<>>
    THEN [error |-> joinMessages(file.errors), fileObject |-> fileObject]
    ELSE [error |-> "none",
          fileObject |-> [fileObject EXCEPT !.relativePath = Some(relativePath), !.data = file.data]]

\* Listr: the outcome of a task, with the file it read, and the task that
\* follows
LoggedRead(task, err, file) ==
    log' = Append(log, [task |-> task, outcome |-> IF err = "none" THEN "success" ELSE "failed",
                        read |-> file])

Logged(task, err) == LoggedRead(task, err, NoRead)

Then(next, err) == pc' = IF err = "none" THEN next ELSE "failed"

\* lines 222-237, the first task
LoadPackageTask ==
    /\ pc = "loadPackageFile"
    /\ \E file \in PackageFiles :
          /\ error' = loadFile(ctx.packageObject, PackageJsonPath, file).error
          /\ ctx' = [ctx EXCEPT !.packageObject = loadFile(ctx.packageObject, PackageJsonPath, file).fileObject]
          /\ LoggedRead("Load package.json file...", error', file)
    /\ Then("loadPackageLockFile", error')
    /\ UNCHANGED <<packages, mrr, ignoredRanges, step, call, title, written, humanized>>

\* lines 239-254, the second task
LoadPackageLockTask ==
    /\ pc = "loadPackageLockFile"
    /\ \E file \in LockFiles :
          /\ error' = loadFile(ctx.packageLockObject, PackageLockPath, file).error
          /\ ctx' = [ctx EXCEPT !.packageLockObject = loadFile(ctx.packageLockObject, PackageLockPath, file).fileObject]
          /\ LoggedRead("Load package-lock.json file...", error', file)
    /\ Then("computeEnginesConstraints", error')
    /\ UNCHANGED <<packages, mrr, ignoredRanges, step, call, title, written, humanized>>

\* the third task
ComputeTask ==
    /\ pc = "computeEnginesConstraints"
    /\ Computes(computeEnginesConstraints(ctx))
    /\ Logged("Compute engines range constraints...", error')
    /\ Then("outputComputedConstraints", error')
    /\ UNCHANGED <<packages, mrr, ignoredRanges, step, call, title, written, humanized>>

\* the fourth task
OutputTask ==
    /\ pc = "outputComputedConstraints"
    /\ Outputs(outputComputedConstraints(ctx))
    /\ Logged("Output computed engines range constraints...", error')
    /\ Then("updatePackageJson", error')
    /\ UNCHANGED <<packages, mrr, ignoredRanges, step, call, written, humanized>>

\* a task that is never skipped
neverSkip(c) == "no"

\* line 532: skip: ({ update }) => (!update ? 'Update is disabled by default.' : !update)
skip(c) == IF ~c.update THEN "Update is disabled by default." ELSE "no"

\* the fifth task, skipped
SkipUpdateTask ==
    /\ pc = "updatePackageJson"
    /\ skip(ctx) # "no"
    /\ log' = Append(log, [task |-> "Update package.json file...", outcome |-> skip(ctx), read |-> NoRead])
    /\ pc' = "done"
    /\ UNCHANGED <<packages, mrr, ignoredRanges, step, call, ctx, title, written, error, humanized>>

\* the fifth task, run
UpdateTask ==
    /\ pc = "updatePackageJson"
    /\ skip(ctx) = "no"
    /\ Updates(updatePackageJson(ctx))
    /\ Logged("Update package.json file...", error')
    /\ Then("done", error')
    /\ UNCHANGED <<packages, mrr, ignoredRanges, step, call, title, humanized>>

\* the options -e and -u of the command line
InitCheck ==
    /\ packages = <<>>
    /\ mrr = Range(<<StarTok>>)
    /\ ignoredRanges = <<>>
    /\ pc = "loadPackageFile"
    /\ step = "none"
    /\ call = NoCall
    /\ title = NoTitle
    /\ written = <<>>
    /\ log = <<>>
    /\ error = "none"
    /\ humanized = NotHumanized
    /\ \E e \in {None, Some(<<Node>>), Some(<<Foo>>)}, u \in BOOLEAN :
          ctx = [EmptyCtx EXCEPT !.engines = e, !.update = u]

NextCheck ==
    \/ LoadPackageTask
    \/ LoadPackageLockTask
    \/ ComputeTask
    \/ OutputTask
    \/ SkipUpdateTask
    \/ UpdateTask

\* checkCommandTasks run by Listr
SpecCheck == InitCheck /\ [][NextCheck]_vars

(***************************************************************************)
(* The arrays behind the group lists. heap is the sequence of the arrays    *)
(* allocated so far, an array's address its index: the set of a Range is an *)
(* array of addresses of groups, a group an array of comparators. A Range   *)
(* is (raw, set) with set the address of its group list. The functions of   *)
(* lines 83-156 are given here with every copy, write and removal they make *)
(* on these arrays; they return the heap they leave.                        *)
(***************************************************************************)
\* arrays for the groups, then the array of their addresses
RECURSIVE storeGroups(_, _, _)
storeGroups(heap, groups, addrs) ==
    IF groups = <<>> THEN [heap |-> Append(heap, addrs), ret |-> Len(heap) + 1]
    ELSE storeGroups(Append(heap, Head(groups)), Tail(groups), Append(addrs, Len(heap) + 1))

\* the group list at an address, as a value
groupsAt(heap, a) == [i \in 1..Len(heap[a]) |-> heap[heap[a][i]]]

RangeAt(heap, r) == [raw |-> r.raw, set |-> groupsAt(heap, r.set)]

rangeOf(text, stored) == [heap |-> stored.heap, range |-> [raw |-> text, set |-> stored.ret]]

\* new semver.Range(text): a list and groups of its own
newRange(heap, text) == rangeOf(text, storeGroups(heap, ParseSet(text), <<>>))

\* [...set]: a new list of the same group arrays
copySetShallow(heap, a) == [heap |-> Append(heap, heap[a]), ret |-> Len(heap) + 1]

\* [...set.map(comp => [...comp])]: a new list of new group arrays
copySet(heap, a) == storeGroups(heap, groupsAt(heap, a), <<>>)

RECURSIVE insertAddress(_, _, _)
insertAddress(heap, sorted, x) ==
    IF sorted = <<>> THEN <<x>>
    ELSE IF compare(heap[Head(sorted)][1].semver, heap[x][1].semver) <= 0
         THEN <<Head(sorted)>> \o insertAddress(heap, Tail(sorted), x)
         ELSE <<x>> \o sorted

RECURSIVE sortAddresses(_, _, _)
sortAddresses(heap, addrs, acc) ==
    IF addrs = <<>> THEN acc
    ELSE sortAddresses(heap, Tail(addrs), insertAddress(heap, acc, Head(addrs)))

\* Array.prototype.sort: the list at c.ret is reordered in place
sortInPlace(c) == [heap |-> [c.heap EXCEPT ![c.ret] = sortAddresses(c.heap, @, <<>>)], ret |-> c.ret]

\* line 83-84
sortRangeSetOnHeap(heap, a) == sortInPlace(copySet(heap, a))

\* line 94: filter returns a new list
filterMajor(c, minV) ==
    [heap |-> Append(c.heap, SelectSeq(c.heap[c.ret], LAMBDA x : c.heap[x][1].semver.major >= minV.major)),
     ret |-> Len(c.heap) + 1]

\* lines 96-98: c[0] = new Comparator(...) writes into the group array
RECURSIVE writeMinVersion(_, _, _)
writeMinVersion(heap, addrs, minV) ==
    IF addrs = <<>> THEN heap
    ELSE writeMinVersion(
             IF heap[Head(addrs)][1].semver.major = minV.major /\ gte(minV, heap[Head(addrs)][1].semver)
             THEN [heap EXCEPT ![Head(addrs)][1] = Comparator(@.operator, minV)]
             ELSE heap,
             Tail(addrs), minV)

\* line 95: map returns a new list of the groups it was given
mapWrites(f, minV) ==
    [heap |-> Append(writeMinVersion(f.heap, f.heap[f.ret], minV), f.heap[f.ret]),
     ret |-> Len(f.heap) + 1]

\* lines 89-101
applyMinVersionToRangeSetOnHeap(heap, a, minV) == mapWrites(filterMajor(copySet(heap, a), minV), minV)

\* lines 86-87
setToRangeOnHeap(heap, a) == newRange(heap, FormatSet(groupsAt(heap, a)))

setToRangeOf(c) == setToRangeOnHeap(c.heap, c.ret)

\* every array of the heap before is the same in the heap after
Intact(before, after) == \A a \in 1..Len(before) : after[a] = before[a]

\* the outcome of a call: the heap left, the range returned (status "ok") or
\* the error, and intact: no call, at any level, changed an array that
\* existed when it was entered
Outcome(heap, status, range) == [heap |-> heap, status |-> status, range |-> range, intact |-> TRUE]

NoRange == [raw |-> <<>>, set |-> 0]

leaves(entry, out) == [out EXCEPT !.intact = @ /\ Intact(entry, out.heap)]

RECURSIVE restrictiveRangeOnHeap(_, _, _, _)

\* lines 135-139
intersectOnHeap(newR1, n2, fuel) ==
    IF RangeIntersects(RangeAt(n2.heap, newR1), RangeAt(n2.heap, n2.range))
    THEN restrictiveRangeOnHeap(n2.heap, newR1, n2.range, fuel - 1)
    ELSE Outcome(n2.heap, "nyi", NoRange)

\* line 133
alignSecond(n1, sortedR2, minV, fuel) ==
    intersectOnHeap(n1.range, setToRangeOf(applyMinVersionToRangeSetOnHeap(n1.heap, sortedR2, minV)), fuel)

\* line 132
alignOnHeap(heap, sortedR1, sortedR2, minV, fuel) ==
    alignSecond(setToRangeOf(applyMinVersionToRangeSetOnHeap(heap, sortedR1, minV)), sortedR2, minV, fuel)

\* lines 154-155: set.push(...sortRangeSet(newRange.set)); setToRange(set)
pushSorted(set, sorted, sub) ==
    [sub EXCEPT !.heap = setToRangeOnHeap([sorted.heap EXCEPT ![set] = @ \o sorted.heap[sorted.ret]], set).heap,
                !.range = setToRangeOnHeap([sorted.heap EXCEPT ![set] = @ \o sorted.heap[sorted.ret]], set).range]

\* line 153
mergeSub(set, sub) ==
    IF sub.status # "ok" THEN sub
    ELSE pushSorted(set, sortRangeSetOnHeap(sub.heap, sub.range.set), sub)

\* line 152
mergeSecond(set, n1, sortedR2, fuel) ==
    mergeSub(set, restrictiveRangeOnHeap(setToRangeOnHeap(n1.heap, sortedR2).heap, n1.range,
                                         setToRangeOnHeap(n1.heap, sortedR2).range, fuel - 1))

\* lines 142-151: shift takes the head off both sorted lists in place; set
\* is a new array holding the head group of sortedR1
mergeOnHeap(heap, sortedR1, sortedR2, fuel) ==
    mergeSecond(Len(heap) + 1,
                setToRangeOnHeap(Append([heap EXCEPT ![sortedR1] = Tail(@), ![sortedR2] = Tail(@)],
                                        <<heap[sortedR1][1]>>),
                                 sortedR1),
                sortedR2, fuel)

\* lines 121-155, on the sorted copies
alignOrMergeOnHeap(s2, sortedR1, minVersion1, minVersion2, fuel) ==
    IF minVersion1 = NoVersion \/ minVersion2 = NoVersion
    THEN Outcome(s2.heap, "invalid", NoRange)
    ELSE IF ~eq(minVersion1, minVersion2)
    THEN alignOnHeap(s2.heap, sortedR1, s2.ret, minSemver(minVersion1, minVersion2), fuel)
    ELSE mergeOnHeap(s2.heap, sortedR1, s2.ret, fuel)

\* lines 123-124
sortBoth(s1, r1v, r2v, r2, fuel) ==
    alignOrMergeOnHeap(sortRangeSetOnHeap(s1.heap, r2.set), s1.ret, minVersion(r1v), minVersion(r2v), fuel)

\* lines 112-120
subsetOrSort(heap, r1, r2, r1v, r2v, fuel) ==
    IF subset(r1v, r2v) THEN Outcome(heap, "ok", r1)
    ELSE IF subset(r2v, r1v) THEN Outcome(heap, "ok", r2)
    ELSE sortBoth(sortRangeSetOnHeap(heap, r1.set), r1v, r2v, r2, fuel)

\* lines 103-156
restrictiveRangeOnHeap(heap, r1, r2, fuel) ==
    IF fuel = 0 THEN Outcome(heap, "fuel", NoRange)
    ELSE leaves(heap, subsetOrSort(heap, r1, r2, RangeAt(heap, r1), RangeAt(heap, r2), fuel))

\* the texts of the two ranges whose arrays are on the heap
DescendingTexts ==
    {<<Tok("^", SemVer(a, 0, 0)), OrTok, Tok("^", SemVer(b, 0, 0))>> :
        <<a, b>> \in {p \in Majors \X Majors : p[1] > p[2]}}

HeapTexts == CaretRuns \cup NarrowRuns \cup CaretThenTexts \cup DescendingTexts

\* two ranges constructed one after the other; the floor is the minimum
\* version of the second
NoOutcome == Outcome(<<>>, "none", NoRange)

heapCall(r1, n2) ==
    [heap |-> n2.heap, r1 |-> r1, r2 |-> n2.range,
     minVersion |-> minVersion(RangeAt(n2.heap, n2.range)), ret |-> 0, out |-> NoOutcome]

InitHeap ==
    /\ packages = <<>>
    /\ mrr = Range(<<StarTok>>)
    /\ ignoredRanges = <<>>
    /\ pc = "set"
    /\ step = "none"
    /\ \E t1 \in HeapTexts, t2 \in HeapTexts :
          call = heapCall(newRange(<<>>, t1).range, newRange(newRange(<<>>, t1).heap, t2))
    /\ TasksIdle

\* sortRangeSet(r1.set)
SortOnHeap ==
    /\ pc = "set"
    /\ call' = [call EXCEPT !.ret = sortRangeSetOnHeap(call.heap, call.r1.set).ret,
                            !.out = Outcome(sortRangeSetOnHeap(call.heap, call.r1.set).heap, "ok", NoRange)]
    /\ pc' = "sorted"
    /\ UNCHANGED <<packages, mrr, ignoredRanges, step, taskVars>>

\* applyMinVersionToRangeSet(r1.set, minVersion)
ApplyMinVersionOnHeap ==
    /\ pc = "set"
    /\ call' = [call EXCEPT
                   !.ret = applyMinVersionToRangeSetOnHeap(call.heap, call.r1.set, call.minVersion).ret,
                   !.out = Outcome(applyMinVersionToRangeSetOnHeap(call.heap, call.r1.set, call.minVersion).heap,
                                   "ok", NoRange)]
    /\ pc' = "aligned"
    /\ UNCHANGED <<packages, mrr, ignoredRanges, step, taskVars>>

\* restrictiveRange(r1, r2, ignoredRanges, debug)
ReduceOnHeap ==
    /\ pc = "set"
    /\ call' = [call EXCEPT !.out = restrictiveRangeOnHeap(call.heap, call.r1, call.r2, MaxFuel)]
    /\ pc' = "called"
    /\ UNCHANGED <<packages, mrr, ignoredRanges, step, taskVars>>

NextHeap ==
    \/ SortOnHeap
    \/ ApplyMinVersionOnHeap
    \/ ReduceOnHeap

SpecHeap == InitHeap /\ [][NextHeap]_vars

(***************************************************************************)
(* Properties of restrictiveRange, stated on a direct call (SpecReducer).   *)
(***************************************************************************)
CallReturned == pc = "called" /\ call.ret.status = "ok"

\* a caret-style group '>=x.y.z <(x+1).0.0-0' or an open-ended one '>=x.y.z'
IsCaretGroup(g) ==
    \/ Len(g) = 1 /\ g[1].operator = ">="
    \/ /\ Len(g) = 2
       /\ g[1].operator = ">="
       /\ g[2] = Comparator("<", SemVerPre0(g[1].semver.major + 1, 0, 0))

IsCaretShape(r) == \A i \in 1..Len(r.set) : IsCaretGroup(r.set[i])

\* C2 (reducer soundness): a call of restrictiveRange either throws 'Not yet
\* implemented' or returns a range of which every version satisfies both r1
\* and r2.
ReducerSound ==
    pc = "called" =>
        /\ call.ret.status \in {"ok", "nyi"}
        /\ call.ret.status = "ok" =>
              Denotes(call.ret.range) \subseteq (Denotes(call.r1) \cap Denotes(call.r2))

\* C3, as the reducer decides it (subset absorption): when semver.subset
\* reports r1 a subset of r2 the call returns r1 itself and appends exactly
\* r2's raw text to ignoredRanges; when it reports r2 a subset of r1 and not
\* r1 one of r2, the call returns r2 and appends exactly r1's raw text; in
\* both cases no alignment or merge step runs.
SubsetAbsorption ==
    pc = "called" =>
        /\ subset(call.r1, call.r2) =>
              /\ call.ret.status = "ok"
              /\ call.ret.range = call.r1
              /\ ignoredRanges = Append(call.before, call.r2.raw)
              /\ call.ret.steps = <<"subset1">>
        /\ ~subset(call.r1, call.r2) /\ subset(call.r2, call.r1) =>
              /\ call.ret.status = "ok"
              /\ call.ret.range = call.r2
              /\ ignoredRanges = Append(call.before, call.r1.raw)
              /\ call.ret.steps = <<"subset2">>

\* C3, as stated (subset absorption): when every version of r1 is one of r2,
\* the call returns r1 itself and appends exactly r2's raw text; when every
\* version of r2 is one of r1, and not the other way round, it returns r2 and
\* appends exactly r1's raw text; no alignment or merge step runs.
SemanticAbsorption ==
    pc = "called" =>
        /\ Denotes(call.r1) \subseteq Denotes(call.r2) =>
              /\ call.ret.status = "ok"
              /\ call.ret.range = call.r1
              /\ ignoredRanges = Append(call.before, call.r2.raw)
              /\ call.ret.steps = <<"subset1">>
        /\ ~(Denotes(call.r1) \subseteq Denotes(call.r2))
           /\ Denotes(call.r2) \subseteq Denotes(call.r1) =>
              /\ call.ret.status = "ok"
              /\ call.ret.range = call.r2
              /\ ignoredRanges = Append(call.before, call.r1.raw)
              /\ call.ret.steps = <<"subset2">>

\* r2 is a strict subset of r1 and ignoredRanges already held a text
SubsetAbsorbed ==
    /\ pc = "called"
    /\ ~subset(call.r1, call.r2)
    /\ subset(call.r2, call.r1)
    /\ call.r1.raw # call.r2.raw
    /\ Len(call.before) = 1
    /\ Len(ignoredRanges) = 2

\* the same call with its arguments swapped
Swapped == restrictiveRange(call.r2, call.r1)

\* both directions of subset fail and the minimum versions are equal, before
\* or after the alignment to the higher minimum
InSubsetOrEqualMinimumCase ==
    \/ call.ret.steps \in {<<"subset1">>, <<"subset2">>}
    \/ Len(call.ret.steps) >= 1 /\ call.ret.steps[1] = "merge"
    \/ Len(call.ret.steps) >= 2 /\ call.ret.steps[1] = "align" /\ call.ret.steps[2] = "merge"

\* C5 (commutativity): in the subset and equal-minimum cases,
\* restrictiveRange(a, b) and restrictiveRange(b, a) denote the same set of
\* versions, and one throws exactly when the other does.
ReducerCommutes ==
    pc = "called" /\ InSubsetOrEqualMinimumCase =>
        /\ (call.ret.status = "ok") = (Swapped.status = "ok")
        /\ call.ret.status = "ok" => Denotes(call.ret.range) = Denotes(Swapped.range)

\* C6 (exactness on caret shapes): when every group of r1 and r2 is a caret
\* interval or open-ended and the call returns, the range returned denotes
\* exactly the intersection of r1 and r2.
CaretExact ==
    CallReturned /\ IsCaretShape(call.r1) /\ IsCaretShape(call.r2) =>
        Denotes(call.ret.range) = Denotes(call.r1) \cap Denotes(call.r2)

\* the versions of a list of groups: none when the list is empty
DenotesSet(set) == {v \in TestVersions : \E i \in 1..Len(set) : testSet(set[i], v)}

\* the groups of r restated relative to the larger minimum version of the call
Restated(r) ==
    applyMinVersionToRangeSet(sortRangeSet(r.set),
                              minSemver(minVersion(call.r1), minVersion(call.r2)))

\* C7 (disjoint ranges fail loud): when the minimum versions differ and the
\* two ranges, restated relative to the larger minimum, share no version, the
\* call throws 'Not yet implemented' and returns no range.
DisjointFailsLoud ==
    /\ pc = "called"
    /\ ~subset(call.r1, call.r2)
    /\ ~subset(call.r2, call.r1)
    /\ minVersion(call.r1) # NoVersion
    /\ minVersion(call.r2) # NoVersion
    /\ ~eq(minVersion(call.r1), minVersion(call.r2))
    /\ DenotesSet(Restated(call.r1)) \cap DenotesSet(Restated(call.r2)) = {}
    => call.ret.status = "nyi"

\* C8 (subset idempotence): restrictiveRange(r, r) returns r, textually
\* identical, and throws nothing.
SubsetIdempotence ==
    pc = "called" /\ call.r1 = call.r2 =>
        /\ call.ret.status = "ok"
        /\ call.ret.range = call.r1
        /\ call.ret.range.raw = call.r2.raw

\* a call on twice the same two-group range
SameRangeTwice ==
    /\ pc = "called"
    /\ call.r1 = call.r2
    /\ Len(call.r1.set) = 2
    /\ call.ret.status = "ok"

(***************************************************************************)
(* Properties of computeEnginesConstraint (Spec).                           *)
(***************************************************************************)
LastPackage == packages[Len(packages)]

\* C1 (aggregation soundness): the range returned is a subset of the range of
\* every package that declared a valid constraint, the skipped ones included.
AggregationSound ==
    pc = "returned" =>
        \A i \in 1..Len(packages) :
            packages[i].kind = "text" =>
                Denotes(mrr) \subseteq Denotes(Range(rawValidRange(packages[i])))

\* C4 (aggregator monotonicity): a step of the fold never widens the
\* accumulator: after restrictiveRange returned, mrr is a subset of the
\* accumulator it was called with.
AggregatorMonotone ==
    step = "reduced" => Denotes(mrr) \subseteq Denotes(call.r1)

\* C9 (ignored ranges are subsumed): a package skipped because its text is in
\* ignoredRanges denotes a superset of the accumulator, so that passing it to
\* the reducer would leave the accumulator as it is.
IgnoredSubsumed ==
    step = "ignored" =>
        /\ Denotes(mrr) \subseteq Denotes(Range(rawValidRange(LastPackage)))
        /\ restrictiveRange(mrr, Range(rawValidRange(LastPackage))).status = "ok"
        /\ Denotes(restrictiveRange(mrr, Range(rawValidRange(LastPackage))).range) = Denotes(mrr)

(***************************************************************************)
(* The duplicate-constraints scenario (SpecDuplicates).                     *)
(***************************************************************************)
DuplicateScenario ==
    <<Declared(GTE12220), Declared(GTE14170), Declared(GTE12220), Declared(GTE14170)>>

\* the first n packages iterated are the first n of the scenario
InScenario(n) == Len(packages) = n /\ packages = SubSeq(DuplicateScenario, 1, n)

Iterated(text) == \E i \in 1..Len(packages) : packages[i] = Declared(text)

\* the aggregate of the distinct texts iterated so far
DistinctAggregate ==
    IF Iterated(GTE14170) THEN GTE14170
    ELSE IF Iterated(GTE12220) THEN GTE12220
    ELSE <<StarTok>>

AsPackage(c) ==
    [engines |-> IF c.kind = "absent" THEN NoEngines ELSE EnginesObject(<<EngineEntry(Node, c)>>)]

IsNotInvalid(pkg) == pkg.kind # "invalid"

\* the aggregation of the packages iterated, the invalid ones removed
WithoutInvalid ==
    computeEnginesConstraint(
        [i \in 1..Len(SelectSeq(packages, IsNotInvalid)) |-> AsPackage(SelectSeq(packages, IsNotInvalid)[i])],
        Node)

SkipInvalidScenario == <<Declared(GTE12220), InvalidConstraint, Declared(GTE14170)>>

\* C11 (invalid constraints are skipped, never fatal): a package whose string
\* is no semver range throws nothing, and the accumulator and ignoredRanges
\* are those of the aggregation of the list with the invalid packages
\* removed, which throws exactly when this one does; '>=12.22.0', '>=a.b.c',
\* '>=14.17.0' aggregate to '>=14.17.0'.
InvalidSkipped ==
    /\ step = "invalid" => pc # "threw"
    /\ pc = "threw" => WithoutInvalid.status # "ok"
    /\ pc # "threw" =>
          WithoutInvalid = [status |-> "ok", mrr |-> mrr, ignoredRanges |-> ignoredRanges]
    /\ packages = SkipInvalidScenario => pc # "threw" /\ mrr.raw = GTE14170

\* the aggregation of the scenario has returned
InvalidScenarioAggregated ==
    pc = "returned" /\ packages = SkipInvalidScenario /\ step = "reduced" /\ mrr.raw = GTE14170

(***************************************************************************)
(* Properties of computeEnginesConstraints (SpecCompute).                   *)
(***************************************************************************)
ReducerErrors == {ErrorOf(status) : status \in {"nyi", "invalid", "fuel"}}

\* the context passes the checks of lines 329-355
CanAggregate(c) ==
    /\ IsSome(c.packageObject.data)
    /\ IsSome(c.packageLockObject.data)
    /\ IsSome(Value(c.packageLockObject.data).packages)
    /\ constraintKeysOf(c) # <<>>

\* restrictiveRange throws in the aggregation of one of the engines
ThrowsFor(c, key) ==
    \/ computeEnginesConstraint(ownPackages(c), key).status # "ok"
    \/ computeEnginesConstraint(lockPackages(c), key).status # "ok"

SomeEngineThrows(c) ==
    CanAggregate(c) /\ \E i \in 1..Len(constraintKeysOf(c)) : ThrowsFor(c, constraintKeysOf(c)[i])

\* C12 (an error of restrictiveRange aborts the whole computation): when the
\* aggregation of any engine throws, computeEnginesConstraints ends with
\* that error and the context, ctx.ranges included, is as before the call.
ReducerErrorAborts ==
    [][pc = "compute" /\ SomeEngineThrows(ctx)
          => error' \in ReducerErrors /\ ctx'.ranges = ctx.ranges /\ ctx' = ctx]_vars

\* npm was aggregated, then node threw: the ranges of a previous run are kept
AbortedAfterFirstEngine ==
    /\ pc = "computed"
    /\ error = "Not yet implemented :/"
    /\ ctx.engines = Some(<<Npm, Node, Npm>>)
    /\ computeEnginesConstraint(lockPackages(ctx), Npm).status = "ok"
    /\ ctx.ranges = Some(OldRanges)

\* the packages whose constraint for the key is a semver range
Usable(pkgs, key) ==
    {i \in 1..Len(pkgs) : getConstraintFromEngines(pkgs[i].engines, key).kind = "text"}

OnlyUsable(pkgs, key) ==
    getConstraintFromEngines(pkgs[CHOOSE i \in Usable(pkgs, key) : TRUE].engines, key)

\* '*' without a usable constraint, the range of the only usable one
DefaultOf(pkgs, key) ==
    IF Usable(pkgs, key) = {} THEN Range(<<StarTok>>)
    ELSE Range(validRange(OnlyUsable(pkgs, key).text))

AtMostOneUsable(c) ==
    \A i \in 1..Len(constraintKeysOf(c)) :
        Cardinality(Usable(lockPackages(c), constraintKeysOf(c)[i])) <= 1

\* C13 (universal default): the aggregate of packages without a usable
\* constraint for the engine is '*', the 'from' range of a project without
\* engines is '*', and the aggregate of packages with exactly one usable
\* constraint is the range of that constraint.
UniversalDefault ==
    pc = "computed" /\ CanAggregate(ctx) /\ AtMostOneUsable(ctx) =>
        /\ error = "none"
        /\ \A i \in 1..Len(Value(ctx.ranges)) :
              /\ Value(ctx.ranges)[i].value.from = DefaultOf(ownPackages(ctx), Value(ctx.ranges)[i].key)
              /\ Value(ctx.ranges)[i].value.to = DefaultOf(lockPackages(ctx), Value(ctx.ranges)[i].key)

\* the same content as a mapping { engineName: constraint }
AsObject(engines) ==
    IF engines.shape = "array" THEN EnginesObject(engines.entries) ELSE engines

ObjectShaped(c) ==
    [c EXCEPT !.packageLockObject.data =
        Some([packages |-> Some([i \in 1..Len(lockPackages(c)) |->
                                    [engines |-> AsObject(lockPackages(c)[i].engines)]])])]

SameOutcome(res) ==
    error = res.error /\ (error = "none" => ctx.ranges = Some(res.ranges))

\* C14 (the two shapes of engines are equivalent): for every package of the
\* lock file and every recognized key the constraint extracted from an array
\* of '<engineName> <constraint>' strings is the one extracted from the
\* mapping with the same content, and the outcome of
\* computeEnginesConstraints is that of the lock file with mappings only.
ShapesEquivalent ==
    pc = "computed" /\ CanAggregate(ctx) =>
        /\ \A i \in 1..Len(lockPackages(ctx)), k \in 1..Len(EngineConstraintKeys) :
              getConstraintFromEngines(lockPackages(ctx)[i].engines, EngineConstraintKeys[k])
                  = getConstraintFromEngines(AsObject(lockPackages(ctx)[i].engines), EngineConstraintKeys[k])
        /\ SameOutcome(computeEnginesConstraints(ObjectShaped(ctx)))

\* package.json and the packages of package-lock.json are loaded
FilesLoaded(c) ==
    /\ IsSome(c.packageObject.data)
    /\ IsSome(c.packageLockObject.data)
    /\ IsSome(Value(c.packageLockObject.data).packages)

NoSelection(c) == ~IsSome(c.engines) \/ Value(c.engines) = <<>>

NoneRecognized(c) ==
    ~NoSelection(c) /\ \A i \in 1..Len(Value(c.engines)) : ~inSeq(EngineConstraintKeys, Value(c.engines)[i])

\* the engines that have an entry in ctx.ranges
Processed(c) == {Value(c.ranges)[i].key : i \in 1..Len(Value(c.ranges))}

Recognized == {EngineConstraintKeys[i] : i \in 1..Len(EngineConstraintKeys)}

Selected(c) == {Value(c.engines)[i] : i \in 1..Len(Value(c.engines))}

HumanizedText(text) == pc = "humanized" /\ humanized.range = Some(Range(text))

ExplicitCaret(v) == <<Tok(">=", v), Tok("<", SemVerPre0(v.major + 1, 0, 0))>>

CaretVersions == {SemVer(ma, mi, 0) : ma \in 0..MaxMajor, mi \in Minors}

\* C16 as stated (humanize round trip on caret shapes, m = 0 included): the
\* parsed range '>=x.y.z <(x+1).0.0-0' is rendered '^x.y.z' for every
\* version from 0.0.0.
CaretRoundTripFromZero ==
    \A v \in CaretVersions :
        HumanizedText(ExplicitCaret(v)) => humanized.ret = <<Tok("^", v)>>

\* C16 (humanize round trip on caret shapes): the parsed range
\* '>=x.y.z <(x+1).0.0-0' is rendered '^x.y.z' for every version but 0.0.0,
\* whose comparator '>=0.0.0' the parser drops: '>=0.0.0 <1.0.0-0' is
\* rendered '<1.0.0-0'. The two caret ranges of the test are rendered
\* '^14.17.0 || ^16.10.0'.
CaretRoundTrip ==
    /\ \A v \in CaretVersions \ {SemVer(0, 0, 0)} :
          HumanizedText(ExplicitCaret(v)) => humanized.ret = <<Tok("^", v)>>
    /\ HumanizedText(ExplicitCaret(SemVer(0, 0, 0))) =>
          humanized.ret = <<Tok("<", SemVerPre0(1, 0, 0))>>
    /\ HumanizedText(TestCaretCaret) =>
          humanized.ret = <<Tok("^", SemVer(14, 17, 0)), SpacedOrTok, Tok("^", SemVer(16, 10, 0))>>

\* '>=1.1.0 <2.0.0-0' was humanized to '^1.1.0'
CaretHumanized ==
    /\ HumanizedText(ExplicitCaret(SemVer(1, 1, 0)))
    /\ humanized.ret = <<Tok("^", SemVer(1, 1, 0))>>

\* the range accepts every version
IsUniversalRange(r) == r.set = <<<<AnyComparator>>>>

IsCaretSpan(comps) ==
    /\ Len(comps) = 2
    /\ comps[1].operator = ">="
    /\ comps[2].operator = "<"
    /\ comps[2].semver.major = comps[1].semver.major + 1

\* the values of all the comparators of the group, a space between them
AllValues(comps) == Flatten([j \in 1..Len(comps) |-> ComparatorValue(comps[j])])

Rendering(comps) ==
    IF IsCaretSpan(comps) THEN <<Tok("^", comps[1].semver)>>
    ELSE AllValues(comps)

Renderings(set) == JoinSpacedOr([i \in 1..Len(set) |-> Rendering(set[i])])

\* C17 (humanize rendering rule): humanizeRange returns '*' for an absent
\* range and for the universal range; otherwise the renderings of the groups
\* in ascending order of their lower bounds joined by ' || ', a group being
\* rendered '^<lower version>' when it is '>=' and '<' comparators with the
\* upper major one above the lower major, and as its comparator values
\* joined by a space otherwise ('>14.17.0' and '14.17.0' are unchanged).
RenderingRule ==
    pc = "humanized" =>
        /\ ~IsSome(humanized.range) => humanized.ret = <<StarTok>>
        /\ IsSome(humanized.range) /\ IsUniversalRange(Value(humanized.range)) =>
              humanized.ret = <<StarTok>>
        /\ IsSome(humanized.range) /\ ~IsUniversalRange(Value(humanized.range)) =>
              humanized.ret = Renderings(sortRangeSet(Value(humanized.range).set))
        /\ HumanizedText(TestGT) => humanized.ret = TestGT
        /\ HumanizedText(TestExact) => humanized.ret = TestExact

(***************************************************************************)
(* Properties of outputComputedConstraints (SpecOutput).                    *)
(***************************************************************************)
\* the engines of ctx.ranges whose two humanized strings differ
Differing(c) ==
    {Value(c.ranges)[i].key : i \in {j \in 1..Len(Value(c.ranges)) :
        humanizeRange(Some(Value(c.ranges)[j].value.from)) # humanizeRange(Some(Value(c.ranges)[j].value.to))}}

ToOf(c, engine) ==
    Value(c.ranges)[CHOOSE i \in 1..Len(Value(c.ranges)) : Value(c.ranges)[i].key = engine].value.to

Simplified(c) == Value(c.rangesSimplified)

\* C18 (change reporting): a call without ctx.ranges throws 'Computed
\* engines range constraints are not defined.' and leaves the context and
\* the title as they were; otherwise ctx.rangesSimplified maps exactly the
\* engines whose humanized 'from' and 'to' differ to the humanized 'to',
\* the title is the up-to-date one iff that map is empty, and the hint is in
\* the title iff there is a change and ctx.update is false.
ChangeReporting ==
    [][pc = "output" =>
          /\ ~IsSome(ctx.ranges) =>
                /\ error' = "Computed engines range constraints are not defined."
                /\ ctx' = ctx
                /\ title' = title
          /\ IsSome(ctx.ranges) =>
                /\ error' = "none"
                /\ ctx' = [ctx EXCEPT !.rangesSimplified = ctx'.rangesSimplified]
                /\ IsSome(ctx'.rangesSimplified)
                /\ {Simplified(ctx')[i].key : i \in 1..Len(Simplified(ctx'))} = Differing(ctx)
                /\ \A i \in 1..Len(Simplified(ctx')) :
                      Simplified(ctx')[i].value = humanizeRange(Some(ToOf(ctx, Simplified(ctx')[i].key)))
                /\ title'.kind = "up-to-date" <=> Simplified(ctx') = <<>>
                /\ title'.kind = "table" <=> Simplified(ctx') # <<>>
                /\ title'.hint <=> Simplified(ctx') # <<>> /\ ~ctx.update]_vars

\* node went from '^1.0.0' to '>=1.1.0' and npm from '^1.0.0' to
\* '>=1.0.0 <2.0.0-0': node alone is reported, with the hint
NodeAloneReported ==
    /\ pc = "outputDone"
    /\ error = "none"
    /\ ~ctx.update
    /\ Len(Value(ctx.ranges)) = 2
    /\ Value(ctx.ranges)[2].value = [from |-> Range(<<Tok("^", SemVer(1, 0, 0))>>), to |-> Range(GTE100LT200)]
    /\ ctx.rangesSimplified = Some(<<[key |-> Node, value |-> GTE110]>>)
    /\ title.kind = "table"
    /\ title.hint

(***************************************************************************)
(* Properties of updatePackageJson (SpecUpdate).                            *)
(***************************************************************************)
\* C20 (precondition errors of updatePackageJson): it throws 'Simplified
\* computed engines range constraints are not defined.' without
\* ctx.rangesSimplified, else 'package.json data is not defined.' without
\* packageObject.data, else 'package.json path is not defined.' without
\* packageObject.relativePath; in these cases writeJson is not called and
\* the context, the engines of packageObject.data included, is unchanged.
UpdatePreconditions ==
    [][pc = "update" =>
          /\ ~IsSome(ctx.rangesSimplified) =>
                error' = "Simplified computed engines range constraints are not defined."
          /\ IsSome(ctx.rangesSimplified) /\ ~IsSome(ctx.packageObject.data) =>
                error' = "package.json data is not defined."
          /\ IsSome(ctx.rangesSimplified) /\ IsSome(ctx.packageObject.data)
                /\ ~IsSome(ctx.packageObject.relativePath) =>
                error' = "package.json path is not defined."
          /\ IsSome(ctx.rangesSimplified) /\ IsSome(ctx.packageObject.data)
                /\ IsSome(ctx.packageObject.relativePath) =>
                error' = "none" /\ Len(written') = Len(written) + 1
          /\ error' # "none" => written' = written /\ ctx' = ctx]_vars

\* the path alone was missing: nothing written, engines as before
PathMissing ==
    /\ pc = "updated"
    /\ error = "package.json path is not defined."
    /\ ctx.rangesSimplified = Some(<<[key |-> Node, value |-> GTE110]>>)
    /\ IsSome(ctx.packageObject.data)
    /\ Value(ctx.packageObject.data).engines = Some(EnginesObject(<<EngineEntry(Node, Declared(GTE110))>>))
    /\ written = <<>>

(***************************************************************************)
(* Properties of the task list (SpecCheck).                                 *)
(***************************************************************************)
TaskTitles ==
    <<"Load package.json file...", "Load package-lock.json file...",
      "Compute engines range constraints...", "Output computed engines range constraints...",
      "Update package.json file...">>

\* C19 (pipeline order and update gating): the tasks start in the order
\* load package.json, load package-lock.json, compute, output, update, each
\* after the success of the one before; the update task is skipped with
\* 'Update is disabled by default.' iff ctx.update is false, and then
\* nothing is ever written; writeJson is called only in the update task,
\* after the compute and output tasks have succeeded.
PipelineOrder ==
    /\ Len(log) <= Len(TaskTitles)
    /\ \A i \in 1..Len(log) : log[i].task = TaskTitles[i]
    /\ \A i \in 2..Len(log) : log[i - 1].outcome = "success"
    /\ Len(log) = 5 => (log[5].outcome = "Update is disabled by default." <=> ~ctx.update)
    /\ ~ctx.update => written = <<>>
    /\ written # <<>> =>
          /\ ctx.update
          /\ Len(written) = 1
          /\ Len(log) = 5
          /\ log[3].outcome = "success"
          /\ log[4].outcome = "success"
          /\ log[5].outcome = "success"
    /\ pc = "done" => Len(log) = 5

\* a run with -u that wrote package.json in its fifth task
UpdateRan ==
    /\ pc = "done"
    /\ ctx.update
    /\ Len(log) = 5
    /\ Len(written) = 1
    /\ written[1].path = PackageJsonPath

\* the engines object as a set of properties
Properties(engines) ==
    IF IsSome(engines)
    THEN {Value(engines).entries[i] : i \in 1..Len(Value(engines).entries)}
    ELSE {}

NamesOf(props) == {e.name : e \in props}

\* the properties of ctx.rangesSimplified
SimplifiedProperties(c) ==
    {EngineEntry(Value(c.rangesSimplified)[i].key, Declared(Value(c.rangesSimplified)[i].value)) :
        i \in 1..Len(Value(c.rangesSimplified))}

\* the previous engines with the properties of the map put in their place
Replaced(previous, simplified) ==
    {e \in previous : e.name \notin NamesOf(simplified)} \cup simplified

\* C21 (updatePackageJson only touches changed engines): after a successful
\* update the engines written, and those of packageObject.data, are the
\* previous engines with the value of every engine of ctx.rangesSimplified
\* set to its humanized range; the other keys keep their values and no key
\* is removed.
OnlyChangedEngines ==
    [][pc = "update" /\ error' = "none" =>
          /\ Len(written') = 1
          /\ written'[1].path = Value(ctx.packageObject.relativePath)
          /\ Properties(written'[1].data.engines)
                = Replaced(Properties(Value(ctx.packageObject.data).engines), SimplifiedProperties(ctx))
          /\ Len(Value(written'[1].data.engines).entries)
                = Cardinality(Properties(written'[1].data.engines))
          /\ Properties(Value(ctx'.packageObject.data).engines) = Properties(written'[1].data.engines)
          /\ NamesOf(Properties(Value(ctx.packageObject.data).engines))
                \subseteq NamesOf(Properties(written'[1].data.engines))]_vars

\* yarn was added and node replaced, npm kept its value
NodeReplacedNpmKept ==
    /\ pc = "updated"
    /\ error = "none"
    /\ Len(Value(ctx.rangesSimplified)) = 2
    /\ Len(written) = 1
    /\ EngineEntry(Npm, Declared(Caret2)) \in Properties(written[1].data.engines)
    /\ EngineEntry(Node, Declared(<<Tok("^", SemVer(1, 0, 0))>>)) \in Properties(written[1].data.engines)
    /\ Cardinality(Properties(written[1].data.engines)) = 3

\* the file the i-th task read, and the file object it is loaded into
FileObjectOf(i) == IF i = 1 THEN ctx.packageObject ELSE ctx.packageLockObject

PathOf(i) == IF i = 1 THEN PackageJsonPath ELSE PackageLockPath

Unset(fileObject) == fileObject.relativePath = None /\ fileObject.data = None

\* the load failed with the message and left the file object as it was
LoadFailed(i, message) ==
    /\ log[i].outcome = "failed"
    /\ Len(log) = i
    /\ error = message
    /\ Unset(FileObjectOf(i))

\* C22 (file loading fails without partial state): a read that rejects or
\* gives a falsy value throws '<relativePath> is not defined.', a JSON
\* object the schema rejects throws the validation message (a lock file
\* without packages: "must have required property 'packages'"), and in
\* both cases relativePath and data stay unset; a valid file sets
\* relativePath to the path and data to the JSON read.
LoadWithoutPartialState ==
    \A i \in 1..Len(log) :
        i <= 2 =>
            /\ log[i].read.kind \in {"rejects", "null"} => LoadFailed(i, PathOf(i) \o " is not defined.")
            /\ log[i].read.kind = "json" /\ log[i].read.errors # <<>> =>
                  LoadFailed(i, log[i].read.errors[1])
            /\ log[i].read = JsonFile(Some([packages |-> None]), lockErrors(Some([packages |-> None]))) =>
                  error = "must have required property 'packages'"
            /\ log[i].read.kind = "json" /\ log[i].read.errors = <<>> =>
                  /\ log[i].outcome = "success"
                  /\ FileObjectOf(i).relativePath = Some(PathOf(i))
                  /\ Len(log) <= 4 => FileObjectOf(i).data = log[i].read.data

\* package.json was loaded, then package-lock.json had no packages property
LockWithoutPackages ==
    /\ pc = "failed"
    /\ Len(log) = 2
    /\ log[1].outcome = "success"
    /\ IsSome(ctx.packageObject.data)
    /\ log[2].read.data = Some([packages |-> None])
    /\ error = "must have required property 'packages'"
    /\ Unset(ctx.packageLockObject)

(***************************************************************************)
(* Floor alignment                                                          *)
(***************************************************************************)
\* a group '>=lo' or '>=lo <hi'
IsFloorGroup(g) ==
    /\ Len(g) \in {1, 2}
    /\ ~isAny(g[1])
    /\ g[1].operator = ">="
    /\ Len(g) = 2 => ~isAny(g[2]) /\ g[2].operator = "<"

\* the union of the groups of a list accepts the version
UnionTest(set, version) == \E i \in 1..Len(set) : testSet(set[i], version)

\* C23 (floor alignment is an exact clip): for a list of groups '>=lo' or
\* '>=lo <hi' and a floor v, the groups applyMinVersionToRangeSet returns
\* accept exactly the versions >= v that the groups given accept.
ExactClip ==
    pc = "aligned" /\ (\A i \in 1..Len(call.set) : IsFloorGroup(call.set[i])) =>
        \A version \in TestVersions :
            UnionTest(call.ret, version) <=> UnionTest(call.set, version) /\ gte(version, call.minVersion)

(***************************************************************************)
(* Termination                                                              *)
(***************************************************************************)
\* C24 (termination and depth bound): restrictiveRange returns a range or
\* throws 'Not yet implemented :/' after at most as many nested calls as r1
\* and r2 have groups together, and no floor alignment recurses on the pair
\* of ranges it was given.
TerminatesWithinDepth ==
    pc = "called" =>
        /\ call.ret.status \in {"ok", "nyi"}
        /\ Len(call.ret.steps) <= Len(call.r1.set) + Len(call.r2.set)
        /\ ~call.ret.same

(***************************************************************************)
(* Normalizer ordering                                                      *)
(***************************************************************************)
FirstVersion(g) == g[1].semver

\* the list is ascending by the first version of its groups
IsSorted(set) ==
    \A i \in 1..Len(set), j \in 1..Len(set) :
        i < j => compare(FirstVersion(set[i]), FirstVersion(set[j])) <= 0

\* ret holds the groups of set at the positions p gives, ascending by first
\* version, groups of equal first version in the order they have in set
IsStableOrder(set, ret, p) ==
    /\ \A i \in 1..Len(set) : ret[i] = set[p[i]]
    /\ \A i \in 1..Len(set), j \in 1..Len(set) :
          i < j =>
              \/ compare(FirstVersion(ret[i]), FirstVersion(ret[j])) < 0
              \/ compare(FirstVersion(ret[i]), FirstVersion(ret[j])) = 0 /\ p[i] < p[j]

\* C25 (normalizer ordering): sortRangeSet returns the groups given, each
\* once and unaltered, ascending by the version of their first comparator,
\* groups with equal first versions in the order given; a sorted list comes
\* back as it is.
SortIsStablePermutation ==
    pc = "sorted" =>
        /\ Len(call.ret) = Len(call.set)
        /\ \E p \in Permutations(1..Len(call.set)) : IsStableOrder(call.set, call.ret, p)
        /\ IsSorted(call.set) => call.ret = call.set
        /\ sortRangeSet(call.ret) = call.ret

\* three groups given out of order, two of them with the same first version
TiesKeptInOrder ==
    /\ pc = "sorted"
    /\ Len(call.set) = 3
    /\ ~IsSorted(call.set)
    /\ compare(FirstVersion(call.set[1]), FirstVersion(call.set[3])) = 0
    /\ call.set[1] # call.set[3]
    /\ call.ret = <<call.set[1], call.set[3], call.set[2]>>

(***************************************************************************)
(* Properties of the arrays (SpecHeap).                                     *)
(***************************************************************************)
\* C26 (inputs are never mutated): after sortRangeSet, after
\* applyMinVersionToRangeSet and after restrictiveRange, returned or thrown,
\* the group lists and groups of r1 and r2 are what they were before the
\* call, and at every level of restrictiveRange those of its arguments are.
InputsNeverMutated ==
    pc \in {"sorted", "aligned", "called"} =>
        /\ Intact(call.heap, call.out.heap)
        /\ call.out.intact
        /\ RangeAt(call.out.heap, call.r1) = RangeAt(call.heap, call.r1)
        /\ RangeAt(call.out.heap, call.r2) = RangeAt(call.heap, call.r2)

\* the floor replaced the lower bound of a group of the list returned
LowerBoundReplacedInCopy ==
    /\ pc = "aligned"
    /\ Len(call.out.heap[call.ret]) = Len(call.heap[call.r1.set])
    /\ groupsAt(call.out.heap, call.ret) # groupsAt(call.heap, call.r1.set)

(***************************************************************************)
(* Properties of the runs of computeEnginesConstraint (SpecEngines).        *)
(***************************************************************************)
IsPrefixOf(a, b) == Len(a) <= Len(b) /\ SubSeq(b, 1, Len(a)) = a

\* the run of lines 278-325 over the packages: '*' and an empty list at the
\* start, then the loop
RunAlone(pkgs, key) == foldPackages(pkgs, key, FoldStart)

\* the list after each iteration extends the list before it
OnlyGrows(pkgs, key) ==
    \A n \in 1..Len(pkgs) :
        IsPrefixOf(RunAlone(SubSeq(pkgs, 1, n - 1), key).ignoredRanges,
                   RunAlone(SubSeq(pkgs, 1, n), key).ignoredRanges)

\* C27 (ignoredRanges isolation): the 'from' and 'to' ranges published for
\* an engine are those of a run that starts with an empty ignoredRanges
\* list, whichever engines are computed with it and in whatever order; in
\* a run the list is only appended to.
IsolatedRuns ==
    pc = "computed" /\ error = "none" =>
        \A i \in 1..Len(Value(ctx.ranges)) :
            /\ Value(ctx.ranges)[i].value.to = RunAlone(lockPackages(ctx), Value(ctx.ranges)[i].key).mrr
            /\ Value(ctx.ranges)[i].value.from = RunAlone(ownPackages(ctx), Value(ctx.ranges)[i].key).mrr
            /\ OnlyGrows(lockPackages(ctx), Value(ctx.ranges)[i].key)

\* the run for 'node' recorded the text that a dependency declares for 'npm',
\* and the range of 'npm' is that text
RecordedTextNotSkipped ==
    /\ pc = "computed"
    /\ error = "none"
    /\ ctx.engines = Some(<<Node, Npm>>)
    /\ RunAlone(lockPackages(ctx), Node).ignoredRanges = <<<<StarTok>>, GTE110>>
    /\ Value(ctx.ranges)[2].key = Npm
    /\ Value(ctx.ranges)[2].value.to.raw = GTE110

(***************************************************************************)
(* The range of an empty group list                                         *)
(***************************************************************************)
\* C28 (an empty group list never acts as the universal range): when the
\* floor alignment leaves no group of a range, the range setToRange
\* rebuilds from the empty list accepts no version.
EmptyListMatchesNothing ==
    pc = "rebuilt" /\ call.ret = <<>> =>
        \A version \in TestVersions : ~RangeTest(call.range, version)

(***************************************************************************)
(* Order of the packages (Spec).                                            *)
(***************************************************************************)
\* the loop of lines 282-317 over the constraints the packages declare
RECURSIVE foldConstraints(_, _)
foldConstraints(constraints, st) ==
    IF constraints = <<>> THEN st
    ELSE foldConstraints(Tail(constraints), eachConstraint(st, Head(constraints)))

Reordered(list, p) == [i \in 1..Len(list) |-> list[p[i]]]

\* C29 (order independence of aggregation): when computeEnginesConstraint
\* returns for a list of packages, it returns for every reordering of the
\* list, a range that accepts the same versions.
OrderIndependent ==
    pc = "returned" =>
        \A p \in Permutations(1..Len(packages)) :
            /\ foldConstraints(Reordered(packages, p), FoldStart).status = "ok"
            /\ Denotes(foldConstraints(Reordered(packages, p), FoldStart).mrr) = Denotes(mrr)

(***************************************************************************)
(* The meaning of the humanized string (SpecHumanize).                      *)
(***************************************************************************)
\* new semver.Range(string): the groups are split at '||' with or without
\* blanks around it
ParseHumanized(string) ==
    Range([i \in 1..Len(string) |-> IF string[i] = SpacedOrTok THEN OrTok ELSE string[i]])

\* C30 (humanization preserves meaning): for a range whose groups are
\* '>=lo' or '>=lo <hi', the string humanizeRange returns parses to a range
\* that accepts the same versions.
MeaningPreserved ==
    /\ pc = "humanized"
    /\ IsSome(humanized.range)
    /\ \A i \in 1..Len(Value(humanized.range).set) : IsFloorGroup(Value(humanized.range).set[i])
    => Denotes(ParseHumanized(humanized.ret)) = Denotes(Value(humanized.range))

====
